---- MODULE Spec2Model ----
(***************************************************************************)
(* A model of the job collection and relevance-scoring pipeline of         *)
(* jobs-ai: token normalization, the deterministic query builder, the      *)
(* collector's URL deduplication, the job-identity deduplication of the    *)
(* scorer agent, the scorer and the six-stage pipeline orchestrator.       *)
(*                                                                         *)
(* Python strings are TLA+ strings; a character is a string of length 1.   *)
(* Python lists are sequences, dicts are functions from keys to values,    *)
(* and dict objects that the code copies or updates live in a heap that    *)
(* maps addresses to dicts, so that aliasing and mutation are visible.     *)
(***************************************************************************)
EXTENDS Integers, Sequences, FiniteSets, TLC

VARIABLES
    \* normalize_list (utils/normalization.py)
    skill_items,      \* the argument of normalize_list
    normalized,       \* normalize_list(skill_items)
    renormalized,     \* normalize_list(normalized)
    norm_pc,          \* "start" | "once" | "twice"
    \* build_queries (utils/queries.py)
    skill_profile,    \* the argument of build_queries, a dict
    queries,          \* the list returned by the first call
    queries_again,    \* the list returned by a second call on the same profile
    query_pc,         \* "start" | "once" | "twice"
    \* SearcherService.search_jobs (agents/searcher.py)
    keywords,         \* the queries to search for
    job_boards,       \* the names of the job boards to search
    search_q,         \* position of the outer loop in keywords
    search_b,         \* position of the inner loop in job_boards
    all_jobs,         \* the records collected so far
    scraper_calls,    \* the scraper invocations so far, <<scraper, query>>
    batches,          \* the lists `jobs` of the passes of the inner loop so far
    raw_files,        \* the raw-listing files on disk: file name -> content
    deduped,          \* the list returned by search_jobs
    search_pc,        \* "loop" | "done" | "raised"
    \* ScorerAgent._load_job_listings (agents/scorer.py of the first layout)
    raw_dir,          \* the files of the raw-listings directory, in listdir order
    unique_jobs,      \* the list returned by _load_job_listings
    load_pc,          \* "start" | "done"
    \* ScorerService.score_jobs (agents/scorer.py)
    heap,             \* the dict objects: heap[a] is the dict at address a
    heap_at_call,     \* the heap when score_jobs was called
    raw_jobs,         \* the argument raw_jobs, a list of addresses
    tech_stack,       \* the argument tech_stack, a list of categories
    flattened_tech_stack,  \* the normalized flat list _compute_scores builds
    scored_jobs,      \* the list returned by score_jobs, a list of addresses
    scored_files,     \* the scored-listing files on disk: file name -> content
    score_pc,         \* "start" | "done"
    \* main (main.py), the pipeline orchestrator
    form,             \* the argument form_submissions
    pipe_pc,          \* "extract" | "init" | "call" | "running" | "returned" | "raised"
    step_number,      \* the number of the step that is called next or is running
    started,          \* the numbers of the steps whose function was called, in order
    completed,        \* the numbers of the steps that returned, in order
    raw_count,        \* the number of jobs that the search step returned
    pipe_error,       \* the exception that left main, NoError when none did
    caught,           \* the exception e that the wrapper of a step has caught
    http_response,    \* what run_pipeline answers: <<>> before, <<[status, detail]>> after
    \* scrape_duunitori (utils/scrapers/duunitori.py)
    site,             \* what the server answers: the search pages and their cards
    num_pages,        \* the argument num_pages
    deep_mode,        \* the argument deep_mode, a Python bool or str
    per_page_limit,   \* the argument per_page_limit: <<>> for None, <<L>> for the int L
    page,             \* the loop variable page
    job_cards,        \* the cards selected from the current search page
    card_i,           \* the position in job_cards of the card that is parsed next
    results,          \* the list results
    trace,            \* the GET requests issued and the records appended, in order
    scrape_pc,        \* "fetch" | "cards" | "returned" | "raised"
    \* ProfilerAgent._merge_profiles (agents/profiler.py)
    vector_db,        \* the snapshot directory: whether it exists, and its files
    db_at_call,       \* the snapshot directory when _merge_profiles was called
    skill_profile_new,\* the argument skill_profile of _merge_profiles
    merged_profile,   \* what _merge_profiles returned: <<>> before, <<profile>> after
    profile_pc,       \* "start" | "done"
    run_timestamp,    \* self.timestamp of the ProfilerAgent of the run
    creations,        \* how many profile creations were begun
    saved,            \* whether _save_profile wrote the snapshot of the run
    \* _fetch_page (utils/scrapers/duunitori.py)
    fetch_outcomes,   \* what the server does with the first, second, ... GET request
    fetch_retries,    \* the argument retries
    fetch_backoff,    \* the argument backoff, in seconds
    fetch_attempt,    \* the loop variable attempt
    fetch_log,        \* the GET requests and the sleeps of the call, in order
    fetch_result,     \* <<>> before the return, then <<response>>: <<<<>>>> for None
    fetch_pc,         \* "loop" | "returned" | "raised"
    \* call_llm (utils/llms.py)
    max_retries,      \* the argument max_retries
    retry_delay,      \* the argument retry_delay, in seconds
    llm_attempt,      \* the loop variable attempt
    llm_log,          \* the API calls and the sleeps of the call, in order
    llm_result,       \* <<>> before the return, <<text>> after it
    llm_error,        \* the exception that left call_llm, NoError when none did
    llm_pc,           \* "loop" | "returned" | "raised"
    \* extract_json (utils/llms.py)
    llm_text,         \* the argument text
    extracted,        \* <<>> before the return, then <<result>>: <<<<>>>> for None
    json_pc,          \* "start" | "done"
    \* QueryBuilderAgent.create_keywords (agents/query_builder.py)
    kw_max_retries,   \* the argument max_retries
    kw_attempt,       \* the loop variable attempt
    kw_log,           \* what the calls of call_llm did, in order
    kw_result,        \* <<>> before the return, <<keywords>> after it
    kw_error,         \* the exception that left create_keywords, NoError when none did
    kw_pc             \* "loop" | "returned" | "raised"

normVars == <<skill_items, normalized, renormalized, norm_pc>>

queryVars == <<skill_profile, queries, queries_again, query_pc>>

searchVars == <<keywords, job_boards, search_q, search_b, all_jobs, scraper_calls, batches,
                raw_files, deduped, search_pc>>

loadVars == <<raw_dir, unique_jobs, load_pc>>

scoreVars == <<heap, heap_at_call, raw_jobs, tech_stack, flattened_tech_stack,
               scored_jobs, scored_files, score_pc>>

pipeVars == <<form, pipe_pc, step_number, started, completed, raw_count, pipe_error,
              http_response, caught>>

scrapeVars == <<site, num_pages, deep_mode, per_page_limit, page, job_cards, card_i,
                results, trace, scrape_pc>>

profileVars == <<vector_db, db_at_call, skill_profile_new, merged_profile, profile_pc,
                 run_timestamp, creations, saved>>

fetchVars == <<fetch_outcomes, fetch_retries, fetch_backoff, fetch_attempt, fetch_log,
               fetch_result, fetch_pc>>

llmVars == <<max_retries, retry_delay, llm_attempt, llm_log, llm_result, llm_error,
             llm_pc>>

jsonVars == <<llm_text, extracted, json_pc>>

keywordsVars == <<kw_max_retries, kw_attempt, kw_log, kw_result, kw_error, kw_pc>>

vars == <<normVars, queryVars, searchVars, loadVars, scoreVars, pipeVars, scrapeVars,
          profileVars, fetchVars, llmVars, jsonVars, keywordsVars>>

\* What the steps of one component leave alone
otherThanNorm ==
    <<queryVars, searchVars, loadVars, scoreVars, pipeVars, scrapeVars, profileVars,
      fetchVars, llmVars, jsonVars, keywordsVars>>

otherThanQuery ==
    <<normVars, searchVars, loadVars, scoreVars, pipeVars, scrapeVars, profileVars,
      fetchVars, llmVars, jsonVars, keywordsVars>>

otherThanSearch ==
    <<normVars, queryVars, loadVars, scoreVars, pipeVars, scrapeVars, profileVars,
      fetchVars, llmVars, jsonVars, keywordsVars>>

otherThanLoad ==
    <<normVars, queryVars, searchVars, scoreVars, pipeVars, scrapeVars, profileVars,
      fetchVars, llmVars, jsonVars, keywordsVars>>

otherThanScore ==
    <<normVars, queryVars, searchVars, loadVars, pipeVars, scrapeVars, profileVars,
      fetchVars, llmVars, jsonVars, keywordsVars>>

otherThanPipe ==
    <<normVars, queryVars, searchVars, loadVars, scoreVars, scrapeVars, profileVars,
      fetchVars, llmVars, jsonVars, keywordsVars>>

otherThanProfile ==
    <<normVars, queryVars, searchVars, loadVars, scoreVars, pipeVars, scrapeVars,
      fetchVars, llmVars, jsonVars, keywordsVars>>

otherThanScrape ==
    <<normVars, queryVars, searchVars, loadVars, scoreVars, pipeVars, profileVars,
      fetchVars, llmVars, jsonVars, keywordsVars>>

otherThanFetch ==
    <<normVars, queryVars, searchVars, loadVars, scoreVars, pipeVars, scrapeVars,
      profileVars, llmVars, jsonVars, keywordsVars>>

otherThanLlm ==
    <<normVars, queryVars, searchVars, loadVars, scoreVars, pipeVars, scrapeVars,
      profileVars, fetchVars, jsonVars, keywordsVars>>

otherThanJson ==
    <<normVars, queryVars, searchVars, loadVars, scoreVars, pipeVars, scrapeVars,
      profileVars, fetchVars, llmVars, keywordsVars>>

otherThanKeywords ==
    <<normVars, queryVars, searchVars, loadVars, scoreVars, pipeVars, scrapeVars,
      profileVars, fetchVars, llmVars, jsonVars>>

----------------------------------------------------------------------------
(* Characters and Python's str methods, restricted to ASCII.               *)

\* The characters of the model in increasing code-point order.
Alphabet == " ./0123456789ABCDEFGHIJKLMNOPQRSTUVWXYZ_abcdefghijklmnopqrstuvwxyz|"

UpperLetters == "ABCDEFGHIJKLMNOPQRSTUVWXYZ"

LowerLetters == "abcdefghijklmnopqrstuvwxyz"

Whitespace == {" "}

CharAt(s, i) == SubSeq(s, i, i)

CharsOf(s) == {CharAt(s, i) : i \in 1..Len(s)}

IndexIn(letters, c) == CHOOSE i \in 1..Len(letters) : CharAt(letters, i) = c

\* ord(c), up to an order-preserving renumbering
CodeTable == [c \in CharsOf(Alphabet) |-> IndexIn(Alphabet, c)]

Code(c) == CodeTable[c]

UpperSet == CharsOf(UpperLetters)

LowerSet == CharsOf(LowerLetters)

IsUpperChar(c) == c \in UpperSet

IsLowerChar(c) == c \in LowerSet

ToLowerTable == [c \in UpperSet |-> CharAt(LowerLetters, IndexIn(UpperLetters, c))]

ToUpperTable == [c \in LowerSet |-> CharAt(UpperLetters, IndexIn(LowerLetters, c))]

LowerChar(c) == IF IsUpperChar(c) THEN ToLowerTable[c] ELSE c

UpperChar(c) == IF IsLowerChar(c) THEN ToUpperTable[c] ELSE c

RECURSIVE Lower(_)
\* str.lower(), character by character (the string is halved to keep the
\* recursion shallow)
Lower(s) ==
    IF s = "" THEN ""
    ELSE IF Len(s) = 1 THEN LowerChar(s)
    ELSE Lower(SubSeq(s, 1, Len(s) \div 2)) \o Lower(SubSeq(s, Len(s) \div 2 + 1, Len(s)))

RECURSIVE LStrip(_)
LStrip(s) == IF s # "" /\ CharAt(s, 1) \in Whitespace THEN LStrip(Tail(s)) ELSE s

RECURSIVE RStrip(_)
RStrip(s) ==
    IF s # "" /\ CharAt(s, Len(s)) \in Whitespace THEN RStrip(SubSeq(s, 1, Len(s) - 1)) ELSE s

\* str.strip()
Strip(s) == RStrip(LStrip(s))

\* str.isupper(): at least one cased character and no lowercase one
IsUpperStr(s) ==
    /\ \E i \in 1..Len(s) : IsUpperChar(CharAt(s, i))
    /\ \A i \in 1..Len(s) : ~IsLowerChar(CharAt(s, i))

\* str.capitalize(): first character uppercased, the rest lowercased
Capitalize(s) == IF s = "" THEN "" ELSE UpperChar(CharAt(s, 1)) \o Lower(Tail(s))

\* sub in text
Contains(text, sub) ==
    \E i \in 0..(Len(text) - Len(sub)) : SubSeq(text, i + 1, i + Len(sub)) = sub

RECURSIVE StrLess(_, _)
\* a < b for Python strings: lexicographic by code point
StrLess(a, b) ==
    IF b = "" THEN FALSE
    ELSE IF a = "" THEN TRUE
    ELSE IF CharAt(a, 1) # CharAt(b, 1) THEN Code(CharAt(a, 1)) < Code(CharAt(b, 1))
    ELSE StrLess(Tail(a), Tail(b))

\* The sequences over S of length at most n
SeqsUpTo(S, n) == UNION {[1..k -> S] : k \in 0..n}

\* The elements of a list, as a set
Range(f) == {f[i] : i \in DOMAIN f}

\* dict.get(key, default)
Get(d, key, default) == IF key \in DOMAIN d THEN d[key] ELSE default

RECURSIVE SetAsList(_)
\* The elements of a set in one fixed order
SetAsList(S) ==
    IF S = {} THEN <<>>
    ELSE LET x == CHOOSE y \in S : TRUE IN <<x>> \o SetAsList(S \ {x})

Rotate(l, k) == SubSeq(l, k + 1, Len(l)) \o SubSeq(l, 1, k)

Reverse(l) == [i \in 1..Len(l) |-> l[Len(l) + 1 - i]]

\* Orders in which iterating over a Python set may yield its elements: the
\* order depends on the hashes of the elements and differs between runs.
IterationOrders(S) ==
    LET l == SetAsList(S)
    IN  IF S = {} THEN {<<>>}
        ELSE UNION {{Rotate(l, k), Reverse(Rotate(l, k))} : k \in 0..(Len(l) - 1)}

----------------------------------------------------------------------------
(* Normalization (src/jobsai/utils/normalization.py)                       *)

SKILL_ALIAS_MAP ==
    [k \in {"py", "python3", "python", "js", "node", "nodejs", "reactjs",
            "fastapi", "flask", "postgres", "sql"} |->
        CASE k = "py" -> "Python"
          [] k = "python3" -> "Python"
          [] k = "python" -> "Python"
          [] k = "js" -> "JavaScript"
          [] k = "node" -> "Node.js"
          [] k = "nodejs" -> "Node.js"
          [] k = "reactjs" -> "React"
          [] k = "fastapi" -> "FastAPI"
          [] k = "flask" -> "Flask"
          [] k = "postgres" -> "PostgreSQL"
          [] k = "sql" -> "SQL"]

\* A token normalizer that lowercases a token that has an uppercase letter
\* (instead of keeping it) and capitalizes the others.
MutNormalizeTokenFlip(token) ==
    LET t == Strip(token)
        token_lowercase == Lower(t)
    IN  IF t = "" THEN t
        ELSE IF token_lowercase \in DOMAIN SKILL_ALIAS_MAP THEN SKILL_ALIAS_MAP[token_lowercase]
        ELSE IF \E i \in 1..Len(t) : IsUpperChar(CharAt(t, i)) THEN token_lowercase
        ELSE Capitalize(t)

_normalize_token(token) ==
    LET t == Strip(token)
        token_lowercase == Lower(t)
    IN  IF t = "" THEN t
        ELSE IF token_lowercase \in DOMAIN SKILL_ALIAS_MAP THEN SKILL_ALIAS_MAP[token_lowercase]
        ELSE IF IsUpperStr(token_lowercase) THEN t
        ELSE IF \E i \in 1..Len(t) : IsUpperChar(CharAt(t, i)) THEN t
        ELSE Capitalize(t)

RECURSIVE NormalizeLoop(_, _, _)
\* the loop of normalize_list: the rest of the input, the list built so far
\* and the set of the values seen so far
NormalizeLoop(items, acc, seen) ==
    IF items = <<>> THEN acc
    ELSE LET normalized_value == _normalize_token(Head(items))
         IN  IF normalized_value # "" /\ normalized_value \notin seen
             THEN NormalizeLoop(Tail(items), Append(acc, normalized_value),
                                seen \cup {normalized_value})
             ELSE NormalizeLoop(Tail(items), acc, seen)

normalize_list(items) == NormalizeLoop(items, <<>>, {})

----------------------------------------------------------------------------
(* Query builder (src/jobsai/utils/queries.py)                             *)

RECURSIVE InsertAscending(_, _)
\* x inserted into the ascending list l behind every element that is not
\* greater than x
InsertAscending(l, x) ==
    IF l = <<>> THEN <<x>>
    ELSE IF StrLess(x, Head(l)) THEN <<x>> \o l
    ELSE <<Head(l)>> \o InsertAscending(Tail(l), x)

RECURSIVE SortedList(_)
\* sorted(l) for a list of strings: ascending and stable
SortedList(l) ==
    IF l = <<>> THEN <<>>
    ELSE InsertAscending(SortedList(SubSeq(l, 1, Len(l) - 1)), l[Len(l)])

\* The queries that build_queries has added to its set before sorting
QuerySet(profile) ==
    LET core_langs == Get(profile, "core_languages", <<>>)
        agentic == Get(profile, "agentic_ai_experience", <<>>)
        ai_ml == Get(profile, "ai_ml_experience", <<>>)
    IN  UNION {{Lower(core_langs[i]) \o " developer",
                "junior " \o Lower(core_langs[i]) \o " developer",
                Lower(core_langs[i]) \o " engineer"} : i \in 1..Len(core_langs)}
        \cup UNION {{Lower(agentic[i]), Lower(agentic[i]) \o " developer"} :
                       i \in 1..Len(agentic)}
        \cup (IF ai_ml # <<>>
              THEN {"ai engineer", "junior ai engineer", "machine learning engineer",
                    "ml engineer"}
              ELSE {})
        \cup {"junior software developer", "junior full stack developer",
              "entry level developer"}
        \cup {"llm engineer", "agentic ai"}

\* build_queries that returns list(queries) instead of sorted(queries)
MutBuildQueriesUnsorted(profile, order) == order

\* build_queries(profile), where order is the order in which sorted()
\* iterates over the set of queries
build_queries(profile, order) == SortedList(order)

----------------------------------------------------------------------------
(* Collector (src/jobsai/agents/searcher.py)                               *)

\* bool(x) of job.get("url"): a missing key gives None, which is falsy like ""
Truthy(str) == str # ""

\* The value of job.get(key) when it is only tested for truth and compared
\* with strings: None is represented by "", which is as falsy
GetOrNone(job, key) == Get(job, key, "")

RECURSIVE MutDedupKeepBlank(_, _, _)
\* a deduplication loop that tests only `url not in seen_urls`
MutDedupKeepBlank(jobs, acc, seen_urls) ==
    IF jobs = <<>> THEN acc
    ELSE LET url == GetOrNone(Head(jobs), "url")
         IN  IF url \notin seen_urls
             THEN MutDedupKeepBlank(Tail(jobs), Append(acc, Head(jobs)), seen_urls \cup {url})
             ELSE MutDedupKeepBlank(Tail(jobs), acc, seen_urls)

RECURSIVE DedupLoop(_, _, _)
\* the loop of _deduplicate_jobs: the rest of the input, the list built so
\* far and the set seen_urls
DedupLoop(jobs, acc, seen_urls) ==
    IF jobs = <<>> THEN acc
    ELSE LET url == GetOrNone(Head(jobs), "url")
         IN  IF Truthy(url) /\ url \notin seen_urls
             THEN DedupLoop(Tail(jobs), Append(acc, Head(jobs)), seen_urls \cup {url})
             ELSE DedupLoop(Tail(jobs), acc, seen_urls)

_deduplicate_jobs(jobs) == DedupLoop(jobs, <<>>, {})

RECURSIVE Replace(_, _, _)
\* s.replace(old, new) for a one-character old
Replace(s, old, new) ==
    IF s = "" THEN ""
    ELSE IF Len(s) = 1 THEN (IF s = old THEN new ELSE s)
    ELSE Replace(SubSeq(s, 1, Len(s) \div 2), old, new)
            \o Replace(SubSeq(s, Len(s) \div 2 + 1, Len(s)), old, new)

\* self.timestamp
Timestamp == "20250115_143022"

\* The file name that _save_raw_jobs writes to
RawFileName(board, query) ==
    LET safe_query == Replace(Replace(query, " ", "_"), "/", "_")
    IN  Timestamp \o "_" \o Lower(board) \o "_" \o safe_query \o ".json"

\* A routing that compares the board name as it is written
MutScraperForCaseSensitive(job_board) ==
    IF job_board = "duunitori" THEN "scrape_duunitori"
    ELSE IF job_board = "jobly" THEN "scrape_jobly"
    ELSE ""

\* The scraper that search_jobs routes a board name to, "" when it has none
ScraperFor(job_board) ==
    IF Lower(job_board) = "duunitori" THEN "scrape_duunitori"
    ELSE IF Lower(job_board) = "jobly" THEN "scrape_jobly"
    ELSE ""

----------------------------------------------------------------------------
(* Job identity of the scorer agent (src/agents/scorer.py)                 *)

\* snippet[:80]
SnippetPrefixLen == 80

\* s[:n]
Prefix(s, n) == IF Len(s) <= n THEN s ELSE SubSeq(s, 1, n)

\* (job.get(key) or "")
GetOrEmpty(job, key) == Get(job, key, "")

\* An identity that cuts the snippet before it is trimmed and lowercased
Mut_job_identity_SliceFirst(job) ==
    LET url == Strip(GetOrEmpty(job, "url"))
        title == Lower(Strip(GetOrEmpty(job, "title")))
        query == Lower(Strip(GetOrEmpty(job, "query_used")))
        snippet == Lower(Strip(Prefix(GetOrEmpty(job, "description_snippet"),
                                      SnippetPrefixLen)))
    IN  IF url # "" THEN url
        ELSE IF title = "" /\ query = "" /\ snippet = "" THEN ""
        ELSE title \o "|" \o query \o "|" \o snippet

_job_identity(job) ==
    LET url == Strip(GetOrEmpty(job, "url"))
        title == Lower(Strip(GetOrEmpty(job, "title")))
        query == Lower(Strip(GetOrEmpty(job, "query_used")))
        snippet == Lower(Strip(GetOrEmpty(job, "description_snippet")))
        snippet_prefix == Prefix(snippet, SnippetPrefixLen)
    IN  IF url # "" THEN url
        ELSE IF title = "" /\ query = "" /\ snippet = "" THEN ""
        ELSE title \o "|" \o query \o "|" \o snippet_prefix

\* s.endswith(suffix)
EndsWith(s, suffix) ==
    /\ Len(s) >= Len(suffix)
    /\ SubSeq(s, Len(s) - Len(suffix) + 1, Len(s)) = suffix

RECURSIVE LoadedJobs(_)
\* The list `jobs` after the loop over os.listdir: the content of every file
\* whose name ends in .json, that parses, and whose content is a list
LoadedJobs(files) ==
    IF files = <<>> THEN <<>>
    ELSE (IF EndsWith(Head(files).name, ".json") /\ Head(files).kind = "list"
          THEN Head(files).data ELSE <<>>) \o LoadedJobs(Tail(files))

RECURSIVE IdentityLoop(_, _, _)
\* the deduplication loop of _load_job_listings
IdentityLoop(jobs, acc, seen) ==
    IF jobs = <<>> THEN acc
    ELSE LET fingerprint == _job_identity(Head(jobs))
         IN  IF fingerprint # "" /\ fingerprint \notin seen
             THEN IdentityLoop(Tail(jobs), Append(acc, Head(jobs)), seen \cup {fingerprint})
             ELSE IdentityLoop(Tail(jobs), acc, seen)

_load_job_listings(files) == IdentityLoop(LoadedJobs(files), <<>>, {})

----------------------------------------------------------------------------
(* Scorer (src/jobsai/agents/scorer.py)                                    *)

Max(a, b) == IF a >= b THEN a ELSE b

RECURSIVE Pow2(_)
Pow2(k) == IF k = 0 THEN 1 ELSE 2 * Pow2(k - 1)

RECURSIVE Pow2Mod(_, _)
\* 2^k modulo n
Pow2Mod(k, n) == IF k = 0 THEN 1 % n ELSE (2 * Pow2Mod(k - 1, n)) % n

RECURSIVE BinaryShift(_, _)
\* The least e with m * 2^e >= n, for m >= 1
BinaryShift(m, n) == IF m >= n THEN 0 ELSE 1 + BinaryShift(2 * m, n)

\* The bits of the significand of a Python float (IEEE 754 binary64)
FloatMantissaBits == 53

\* A score that is 100 for an empty technology list
MutFloatPercentEmptyFull(m, len) == IF len = 0 THEN 100 ELSE (100 * m) \div len

\* int(m / max(1, len) * 100) in Python's float arithmetic, for 0 <= m <= len.
\* q = m / n is rounded to a float, q * 100 is rounded to a float, int()
\* truncates. With T = floor(100 m / n):
\*  - if n does not divide 100 m, the exact 100 m / n is at least 1/n away
\*    from an integer, far more than the two rounding errors: the result is T;
\*  - if n divides 100 m and q is exact or was rounded up, q * 100 >= T
\*    and rounding is monotonic: the result is T;
\*  - if n divides 100 m and q was rounded down, then q = m/n - (r/n) 2^-k,
\*    where k = 52 + e, 2^e is the least power of two with m 2^e >= n, and
\*    r = (m 2^k) mod n with 2 r < n. The exact product is T - 100 r / (n 2^k);
\*    the floats next to it are T and T - u, where u = 2^(c - 53) and 2^c is
\*    the least power of two >= T. It is rounded to T (ties go to T, whose
\*    significand is even) when 100 r / (n 2^k) <= u / 2, which is
\*    400 r <= n 2^(c + e), and to T - u otherwise, which truncates to T - 1.
FloatPercent(m, len) ==
    LET n == Max(1, len)
        T == (100 * m) \div n
        e == BinaryShift(m, n)
        r == (m * Pow2Mod(FloatMantissaBits - 1 + e, n)) % n
        c == BinaryShift(1, T)
    IN  IF m = 0 THEN 0
        ELSE IF (100 * m) % n # 0 THEN T
        ELSE IF r = 0 \/ 2 * r > n THEN T
        ELSE IF 400 * r <= n * Pow2(c + e) THEN T
        ELSE T - 1

\* A search text that concatenates the three fields without a separator
MutJobTextNoSeparator(job) ==
    Lower(Get(job, "title", "") \o Get(job, "description_snippet", "")
            \o Get(job, "full_description", ""))

\* " ".join([title, description_snippet, full_description]).lower()
JobText(job) ==
    Lower(Get(job, "title", "") \o " " \o Get(job, "description_snippet", "") \o " "
            \o Get(job, "full_description", ""))

RECURSIVE SelectTechs(_, _, _)
\* [tech for tech in techs if (tech.lower() in job_text) == wanted]
SelectTechs(techs, job_text, wanted) ==
    IF techs = <<>> THEN <<>>
    ELSE (IF Contains(job_text, Lower(Head(techs))) = wanted THEN <<Head(techs)>> ELSE <<>>)
            \o SelectTechs(Tail(techs), job_text, wanted)

matched_skills(job, techs) == SelectTechs(techs, JobText(job), TRUE)

missing_skills(job, techs) == SelectTechs(techs, JobText(job), FALSE)

\* The dict that scored_job.update(...) turns a copy of job into
Enriched(job, techs) ==
    LET matched == matched_skills(job, techs)
        missing == missing_skills(job, techs)
    IN  [score |-> FloatPercent(Len(matched), Len(techs)),
         matched_skills |-> matched,
         missing_skills |-> missing] @@ job

\* A scoring that updates the job dict itself and returns it
MutScoreInPlace(h, job, techs) ==
    [heap |-> [h EXCEPT ![job] = Enriched(h[job], techs)], scored_job |-> job]

\* _score_job_against_tech_stack on the heap h for the dict at address job:
\* job.copy() allocates a new dict, update() changes only the copy
_score_job_against_tech_stack(h, job, techs) ==
    [heap |-> Append(h, Enriched(h[job], techs)), scored_job |-> Len(h) + 1]

RECURSIVE FlattenEntries(_)
\* the loop over item.items()
FlattenEntries(entries) ==
    IF entries = <<>> THEN <<>>
    ELSE (IF Head(entries).level_kind = "int" /\ Head(entries).level > 0
          THEN <<Head(entries).name>>
          ELSE IF Head(entries).level_kind = "str" THEN <<Head(entries).name>>
          ELSE <<>>) \o FlattenEntries(Tail(entries))

RECURSIVE FlattenItems(_)
\* the loop over the items of a category that is a list
FlattenItems(items) ==
    IF items = <<>> THEN <<>>
    ELSE (IF Head(items).kind = "dict" THEN FlattenEntries(Head(items).entries)
          ELSE IF Head(items).kind = "str" THEN <<Head(items).value>>
          ELSE <<>>) \o FlattenItems(Tail(items))

RECURSIVE FlattenCategories(_)
\* the loop over tech_stack
FlattenCategories(categories) ==
    IF categories = <<>> THEN <<>>
    ELSE (IF Head(categories).kind = "list" THEN FlattenItems(Head(categories).items)
          ELSE IF Head(categories).kind = "str" THEN <<Head(categories).value>>
          ELSE <<>>) \o FlattenCategories(Tail(categories))

RECURSIVE ScoreLoop(_, _, _, _)
\* the loop of _compute_scores over raw_jobs: the heap, the rest of the
\* jobs, the flat technology list and the list scored_jobs built so far
ScoreLoop(h, jobs, techs, acc) ==
    IF jobs = <<>> THEN [heap |-> h, scored_jobs |-> acc, flattened_tech_stack |-> techs]
    ELSE LET one == _score_job_against_tech_stack(h, Head(jobs), techs)
         IN  ScoreLoop(one.heap, Tail(jobs), techs, Append(acc, one.scored_job))

_compute_scores(h, jobs, stack) ==
    ScoreLoop(h, jobs, normalize_list(FlattenCategories(stack)), <<>>)

RECURSIVE MutInsertBeforeTies(_, _, _)
\* an insertion that puts a job in front of the jobs with the same score
MutInsertBeforeTies(h, l, x) ==
    IF l = <<>> THEN <<x>>
    ELSE IF h[x].score >= h[Head(l)].score THEN <<x>> \o l
    ELSE <<Head(l)>> \o MutInsertBeforeTies(h, Tail(l), x)

RECURSIVE InsertByScore(_, _, _)
\* x inserted into the list l, which is descending in score, behind every
\* job whose score is not smaller
InsertByScore(h, l, x) ==
    IF l = <<>> THEN <<x>>
    ELSE IF h[x].score > h[Head(l)].score THEN <<x>> \o l
    ELSE <<Head(l)>> \o InsertByScore(h, Tail(l), x)

RECURSIVE SortByScore(_, _)
\* list.sort(key=lambda x: x["score"], reverse=True): descending and stable
SortByScore(h, l) ==
    IF l = <<>> THEN <<>>
    ELSE InsertByScore(h, SortByScore(h, SubSeq(l, 1, Len(l) - 1)), l[Len(l)])

ScoredFileName == Timestamp \o "_scored_jobs.json"

----------------------------------------------------------------------------
(* Pipeline orchestrator (src/jobsai/main.py)                              *)

\* total_steps of every pipeline_step decorator
TotalSteps == 6

\* step_name of the decorator of step n
StepName(n) ==
    CASE n = 1 -> "Profiling candidate"
      [] n = 2 -> "Creating keywords"
      [] n = 3 -> "Searching jobs"
      [] n = 4 -> "Scoring jobs"
      [] n = 5 -> "Analyzing jobs"
      [] n = 6 -> "Generating cover letters"

\* An exception: its type, str(e) and its __cause__ (<<>> when it has none,
\* <<e>> after "raise ... from e")
Exception(type, text, cause) == [type |-> type, text |-> text, cause |-> cause]

NoError == Exception("", "", <<>>)

\* " Step {step_number}/{total_steps}: {step_name}"
StepLabel(n) ==
    " Step " \o CharAt("123456", n) \o "/" \o CharAt("123456", TotalSteps)
       \o ": " \o StepName(n)

\* A wrapper whose message names the position of the step in a list of
\* steps that starts at 0
MutPipelineStepOffByOne(n, raised, e) ==
    IF raised
    THEN [pipe_pc |-> "raised",
          step_number |-> n,
          pipe_error |->
             Exception("RuntimeError",
                       StepLabel(IF n = 1 THEN TotalSteps ELSE n - 1) \o " failed: " \o e.text,
                       <<e>>)]
    ELSE [pipe_pc |-> IF n = TotalSteps THEN "returned" ELSE "call",
          step_number |-> IF n = TotalSteps THEN n ELSE n + 1,
          pipe_error |-> NoError]

\* A wrapper that logs the error of a step and does not re-raise it
MutPipelineStepSwallows(n, raised, e) ==
    [pipe_pc |-> IF n = TotalSteps THEN "returned" ELSE "call",
     step_number |-> IF n = TotalSteps THEN n ELSE n + 1,
     pipe_error |-> NoError]

\* The wrapper of pipeline_step around step n once the step function has
\* returned (raised = FALSE) or has raised the exception e: where main goes
\* on and the exception that leaves the wrapper
pipeline_step(n, raised, e) ==
    IF raised
    THEN [pipe_pc |-> "raised",
          step_number |-> n,
          pipe_error |->
             Exception("RuntimeError", StepLabel(n) \o " failed: " \o e.text, <<e>>)]
    ELSE [pipe_pc |-> IF n = TotalSteps THEN "returned" ELSE "call",
          step_number |-> IF n = TotalSteps THEN n ELSE n + 1,
          pipe_error |-> NoError]

\* The exceptions that the function of step n may raise when the search has
\* found raw jobs (count). The scoring step raises exactly when score_jobs
\* returns an empty list, which it does exactly for an empty input.
StepErrors(n, count) ==
    CASE n = 1 -> {Exception("ValueError", "LLM did not return parseable JSON.", <<>>),
                   Exception("RateLimitError", "rate limit", <<>>)}
      [] n = 2 -> {Exception("ValueError",
                             "Failed to create keywords after all retry attempts", <<>>)}
      [] n = 3 -> {Exception("OSError", "cannot write raw listings", <<>>)}
      [] n = 4 -> IF count = 0
                  THEN {Exception("ValueError",
                           "No jobs were scored. This may indicate an issue with job search or scoring logic.",
                           <<>>)}
                  ELSE {}
      [] n = 5 -> {Exception("ValueError", "No scored jobs found for analysis.", <<>>),
                   Exception("RateLimitError", "rate limit", <<>>)}
      [] n = 6 -> {Exception("RateLimitError", "rate limit", <<>>)}

\* Whether the function of step n may return
StepMayReturn(n, count) == n # 4 \/ count > 0

\* A test that takes every scored list for a list with jobs
MutScoredNothingNever(scored) == FALSE

\* `not scored` of _step4_score
ScoredNothing(scored) == scored = <<>>

\* The ValueError that _step4_score raises
NoJobsScored ==
    Exception("ValueError",
              "No jobs were scored. This may indicate an issue with job search or scoring logic.",
              <<>>)

\* type(e).__module__ of the exceptions of the model: the errors of the
\* OpenAI client are defined in the package openai
ModuleOf(type) == IF type = "RateLimitError" THEN "openai" ELSE "builtins"

HttpResponse(status, detail) == [status |-> status, detail |-> detail]

\* The except clauses of run_pipeline (api/server.py), in their order, for
\* the exception e that has left main
run_pipeline_except(e) ==
    CASE e.type = "ValueError" ->
            HttpResponse(400, "Invalid input data or LLM response: " \o e.text)
      [] e.type = "KeyError" -> HttpResponse(500, "Pipeline returned incomplete results.")
      [] e.type = "AttributeError" ->
            HttpResponse(500, "Pipeline encountered an internal error.")
      [] e.type = "FileNotFoundError" ->
            HttpResponse(500, "Required file not found. Please check server configuration.")
      [] e.type = "PermissionError" ->
            HttpResponse(500, "File permission error. Please check server configuration.")
      [] OTHER ->
            IF Contains(Lower(ModuleOf(e.type)), "openai") \/ Contains(e.type, "OpenAI")
            THEN IF Contains(Lower(e.type), "connection") \/ Contains(Lower(e.type), "timeout")
                 THEN HttpResponse(503,
                          "Unable to connect to AI service. Please try again later.")
                 ELSE HttpResponse(502, "AI service error occurred. Please try again later.")
            ELSE HttpResponse(500,
                     "An unexpected error occurred while processing your request.")

----------------------------------------------------------------------------
(* Scraper (src/jobsai/utils/scrapers/duunitori.py)                        *)

\* Python values of the argument deep_mode: a bool, or the str of the form
PyBool(b) == [bool |-> b]

PyStr(str) == [str |-> str]

\* The truth value of a bool or of a str
TruthOf(v) == IF "bool" \in DOMAIN v THEN v.bool ELSE v.str # ""

\* What the server does with one GET request: it answers with a status, or
\* the request raises
Status(code) == [status |-> code]

Raises(exception) == [raises |-> exception]

\* The outcome of the k-th GET request for a page whose outcomes are
\* `attempts`; the last outcome repeats
Outcome(attempts, k) == attempts[IF k <= Len(attempts) THEN k ELSE Len(attempts)]

\* retries of _fetch_page when the caller passes none
SearchRetries == 3

\* retries of _fetch_full_job_description
DetailRetries == 2

RECURSIVE FetchLoop(_, _, _)
\* The loop of _fetch_page from the given attempt on: the response (<<>> for
\* None, <<status>> for a response), whether an exception left the
\* function, and the number of GET requests issued so far
FetchLoop(attempts, attempt, retries) ==
    IF attempt > retries
    THEN [response |-> <<>>, raised |-> FALSE, gets |-> retries]
    ELSE LET outcome == Outcome(attempts, attempt)
         IN  IF "raises" \in DOMAIN outcome
             THEN IF outcome.raises = "RequestException"
                  THEN FetchLoop(attempts, attempt + 1, retries)
                  ELSE [response |-> <<>>, raised |-> TRUE, gets |-> attempt]
             ELSE IF outcome.status = 200
                  THEN [response |-> <<200>>, raised |-> FALSE, gets |-> attempt]
             ELSE IF outcome.status \in {429, 503}
                  THEN FetchLoop(attempts, attempt + 1, retries)
             ELSE [response |-> <<outcome.status>>, raised |-> FALSE, gets |-> attempt]

\* A fetch that tries once more than retries allows
Mut_fetch_page_ExtraTry(attempts, retries) == FetchLoop(attempts, 1, retries + 1)

_fetch_page(attempts, retries) == FetchLoop(attempts, 1, retries)

\* Whether _fetch_page goes on to the next attempt after this outcome of a
\* GET request: status 429 or 503, or a requests.RequestException
Retryable(outcome) ==
    IF "raises" \in DOMAIN outcome THEN outcome.raises = "RequestException"
    ELSE outcome.status \in {429, 503}

\* A wait of the same length after every attempt
MutBackoffDelayConstant(seconds, k) == seconds

\* time.sleep(backoff * attempt)
BackoffDelay(seconds, k) == seconds * k

\* bool(response): false for None, and requests.Response is true exactly
\* when its status is below 400
ResponseTruth(response) == response # <<>> /\ response[1] < 400

\* A scrape that skips a search page it could not fetch and goes on with
\* the next page
MutPageVerdictSkipsFailure(fetched, cards) ==
    IF ~ResponseTruth(fetched.response) THEN "continue"
    ELSE IF fetched.response[1] # 200 THEN "continue"
    ELSE IF cards = <<>> THEN "break"
    ELSE "cards"

\* A scrape that skips a search page without cards and goes on with the
\* next page
MutPageVerdictSkipsEmpty(fetched, cards) ==
    IF ~ResponseTruth(fetched.response) THEN "break"
    ELSE IF fetched.response[1] # 200 THEN "break"
    ELSE IF cards = <<>> THEN "continue"
    ELSE "cards"

\* What the body of the page loop does with the fetched search page: it
\* leaves the loop, or it iterates over the cards
PageVerdict(fetched, cards) ==
    IF ~ResponseTruth(fetched.response) THEN "break"
    ELSE IF fetched.response[1] # 200 THEN "break"
    ELSE IF cards = <<>> THEN "break"
    ELSE "cards"

\* The dict of _parse_job_card, restricted to the fields that the scrape
\* and the collector read
_parse_job_card(card) == [title |-> card.title, url |-> card.url, source |-> "duunitori"]

\* _fetch_full_job_description: value is <<>> for None (the function ends
\* without a return statement when the page has no description) and <<s>>
\* for the str s
_fetch_full_job_description(card) ==
    LET fetched == _fetch_page(card.attempts, DetailRetries)
    IN  IF fetched.raised
        THEN [value |-> <<>>, raised |-> TRUE, gets |-> fetched.gets]
        ELSE IF ~ResponseTruth(fetched.response) \/ fetched.response[1] # 200
        THEN [value |-> <<"">>, raised |-> FALSE, gets |-> fetched.gets]
        ELSE IF card.description # ""
        THEN [value |-> <<card.description>>, raised |-> FALSE, gets |-> fetched.gets]
        ELSE [value |-> <<>>, raised |-> FALSE, gets |-> fetched.gets]

\* Whether the body of the card loop fetches the detail page
FetchesDetail(deep, job) == TruthOf(deep) /\ Truthy(job.url)

\* The record that the body of the card loop appends for a card
JobRecord(card, deep, query) ==
    LET job == _parse_job_card(card)
        detail == _fetch_full_job_description(card)
        described ==
            IF FetchesDetail(deep, job)
            THEN IF detail.raised THEN job @@ [full_description |-> ""]
                 ELSE IF detail.value # <<>> /\ detail.value[1] # ""
                 THEN job @@ [full_description |-> detail.value[1]]
                 ELSE job
            ELSE job @@ [full_description |-> ""]
    IN  described @@ [query_used |-> query]

\* A limit test that lets one record more through
MutLimitReachedLate(limit, total_fetched) ==
    limit # <<>> /\ limit[1] # 0 /\ total_fetched > limit[1]

\* per_page_limit and total_fetched >= per_page_limit
LimitReached(limit, total_fetched) ==
    limit # <<>> /\ limit[1] # 0 /\ total_fetched >= limit[1]

\* A page with fewer cards than this is taken for the last page
FullPageSize == 20

\* A scrape that also stops after a page of exactly twenty cards
MutShortPageIncludesFull(cards) == Len(cards) <= FullPageSize

\* len(job_cards) < 20: the page is taken to be the last one
ShortPage(cards) == Len(cards) < FullPageSize

----------------------------------------------------------------------------
(* Profile snapshots (src/jobsai/agents/profiler.py)                       *)

\* The list fields of a SkillProfile, as _merge_profiles names them
ListFields ==
    {"core_languages", "frameworks_and_libraries", "tools_and_platforms",
     "agentic_ai_experience", "ai_ml_experience", "soft_skills", "projects_mentioned",
     "job_search_keywords"}

\* The experience levels, by their aliases
LevelNames == {"Python", "JavaScript", "Agentic AI", "AI/ML"}

RECURSIVE DictFromKeys(_, _)
\* list(dict.fromkeys(acc + l)) for a duplicate-free acc: every element
\* once, at its first occurrence
DictFromKeys(l, acc) ==
    IF l = <<>> THEN acc
    ELSE DictFromKeys(Tail(l), IF Head(l) \in Range(acc) THEN acc ELSE Append(acc, Head(l)))

\* A merge that puts the new list in front of the existing one
MutMergedListNewFirst(existing_list, new_list) == DictFromKeys(new_list \o existing_list, <<>>)

\* list(dict.fromkeys(existing[list_key] + new[list_key]))
MergedList(existing_list, new_list) == DictFromKeys(existing_list \o new_list, <<>>)

\* The merged profile that _merge_profiles builds from the existing and
\* the new profile
MergedProfile(existing, new) ==
    [key \in DOMAIN existing |->
        IF key \in ListFields THEN MergedList(existing[key], new[key])
        ELSE IF key = "experience_level"
        THEN [level \in LevelNames |->
                 Max(existing.experience_level[level], new.experience_level[level])]
        ELSE IF new.name # "" THEN new.name ELSE existing.name]

\* sorted(os.listdir(SKILL_PROFILE_PATH))[-1]
LatestName(names) == CHOOSE n \in names : \A m \in names : m = n \/ StrLess(m, n)

\* A loading that goes back to the newest snapshot that can be read
MutLoadProfileNewestReadable(db) ==
    LET readable == {n \in DOMAIN db.files : db.files[n].kind = "profile"}
    IN  IF ~db.exists \/ readable = {} THEN <<>>
        ELSE <<db.files[LatestName(readable)].data>>

\* _load_profile: <<>> for None, <<profile>> for the profile of the latest
\* snapshot. json.load and SkillProfile(**data) are inside a bare except.
_load_profile(db) ==
    IF ~db.exists \/ DOMAIN db.files = {} THEN <<>>
    ELSE LET latest == db.files[LatestName(DOMAIN db.files)]
         IN  IF latest.kind = "profile" THEN <<latest.data>> ELSE <<>>

\* The name of the snapshot that _save_profile writes
SnapshotName(timestamp) == timestamp \o "_skill_profile.json"

\* A merge that drops the existing profile
Mut_merge_profiles_KeepsNew(db, new) == new

\* The profile that _merge_profiles saves and returns
_merge_profiles(db, new) ==
    LET existing == _load_profile(db)
    IN  IF existing = <<>> THEN new ELSE MergedProfile(existing[1], new)

\* The directory after _save_profile of a run with the given timestamp has
\* written the profile: a new file, or the file of that name overwritten
_save_profile(db, timestamp, profile) ==
    [exists |-> db.exists,
     files |-> (SnapshotName(timestamp) :> [kind |-> "profile", data |-> profile])
               @@ db.files]

\* The directory after _save_profile has written the profile
Saved(db, profile) == _save_profile(db, Timestamp, profile)

----------------------------------------------------------------------------
(* LLM calls (src/jobsai/utils/llms.py)                                    *)

\* retryable_errors of call_llm
RetryableErrors == {"RateLimitError", "APIConnectionError", "APITimeoutError"}

\* A wait that grows by retry_delay with every attempt
MutRetryDelayLinear(delay, k) == delay * (k + 1)

\* retry_delay * (2**attempt)
RetryDelay(delay, k) == delay * Pow2(k)

\* What client.chat.completions.create does: it raises, or it returns a
\* response without choices, with the content None, or with a text
ApiRaises(type) == [raises |-> type]

ApiResponse(kind, text) == [kind |-> kind, text |-> text]

\* The validation of the response after the loop: the error message, ""
\* when the text is returned
ResponseError(api_response) ==
    CASE api_response.kind = "no_choices" -> "OpenAI API returned empty choices array"
      [] api_response.kind = "none_content" ->
            "OpenAI API returned None content in response"
      [] OTHER -> ""

RECURSIVE Find(_, _, _)
\* text.find(c) from position i on: the position of the first c, 0 for -1
Find(text, c, i) ==
    IF i > Len(text) THEN 0
    ELSE IF CharAt(text, i) = c THEN i
    ELSE Find(text, c, i + 1)

\* The text is a JSON string: a quote, characters that are neither a quote
\* nor a backslash, and a quote
JsonString(text) ==
    /\ Len(text) >= 2
    /\ CharAt(text, 1) = "\"" /\ CharAt(text, Len(text)) = "\""
    /\ \A i \in 2..(Len(text) - 1) : CharAt(text, i) \notin {"\"", "\\"}

\* The JSON objects and arrays among the texts of the model, with the value
\* that json.loads gives for them
JsonTable ==
    [text \in {"{}", "[]", "{\"1\": \"ai engineer\"}",
               "{\"1\": \"ai engineer\", \"2\": \"ml engineer\"}"} |->
        CASE text = "{}" -> [type |-> "dict", values |-> <<>>]
          [] text = "[]" -> [type |-> "list", values |-> <<>>]
          [] text = "{\"1\": \"ai engineer\"}" ->
                [type |-> "dict", values |-> <<"ai engineer">>]
          [] OTHER -> [type |-> "dict", values |-> <<"ai engineer", "ml engineer">>]]

\* json.loads(text) for the texts of the model: whether it returns, and the
\* value it returns
JsonLoads(text) ==
    IF text \in DOMAIN JsonTable THEN [ok |-> TRUE, value |-> JsonTable[text]]
    ELSE IF JsonString(text)
    THEN [ok |-> TRUE, value |-> [type |-> "str", values |-> <<>>]]
    ELSE [ok |-> FALSE, value |-> [type |-> "", values |-> <<>>]]

RECURSIVE BalanceLoop(_, _, _)
\* The brace-balancing loop of extract_json from position i on with the
\* count brace: the position of the "}" at which the count is 0, and 0
\* when the loop ends without one
BalanceLoop(text, i, brace) ==
    IF i > Len(text) THEN 0
    ELSE IF CharAt(text, i) = "{" THEN BalanceLoop(text, i + 1, brace + 1)
    ELSE IF CharAt(text, i) = "}"
    THEN IF brace - 1 = 0 THEN i ELSE BalanceLoop(text, i + 1, brace - 1)
    ELSE BalanceLoop(text, i + 1, brace)

\* An extraction that takes the text from the first "{" to the last "}"
Mut_extract_json_Greedy(text) ==
    LET start == Find(text, "{", 1)
        ends == {i \in 1..Len(text) : i > start /\ CharAt(text, i) = "}"}
    IN  IF start = 0 \/ ends = {} THEN <<>>
        ELSE <<SubSeq(text, start, CHOOSE i \in ends : \A j \in ends : j <= i)>>

\* extract_json: <<>> for None, <<span>> for the extracted text
extract_json(text) ==
    LET start == Find(text, "{", 1)
        end == BalanceLoop(text, start, 0)
    IN  IF start = 0 THEN <<>>
        ELSE IF end # 0 THEN <<SubSeq(text, start, end)>>
        ELSE IF JsonLoads(text).ok THEN <<text>>
        ELSE <<>>

----------------------------------------------------------------------------
(* Keyword creation (src/jobsai/agents/query_builder.py)                   *)

KeywordsResult(keywords_list, error) == [keywords |-> keywords_list, error |-> error]

\* A handling of the response that takes the values of any JSON object
MutKeywordsOfAcceptsEmpty(raw_response) ==
    LET json_text == extract_json(raw_response)
    IN  IF json_text = <<>> \/ ~JsonLoads(json_text[1]).ok
           \/ JsonLoads(json_text[1]).value.type # "dict"
        THEN KeywordsResult(<<>>, "LLM did not return parseable JSON")
        ELSE KeywordsResult(JsonLoads(json_text[1]).value.values, "")

\* What the body of the retry loop makes of the response of call_llm: the
\* keywords and "", or the message of the ValueError that it raises on the
\* last attempt
KeywordsOf(raw_response) ==
    LET json_text == extract_json(raw_response)
    IN  IF json_text = <<>>
        THEN KeywordsResult(<<>>,
                "LLM did not return parseable JSON for keywords after multiple attempts. Please try again or check the profile input.")
        ELSE LET loaded == JsonLoads(json_text[1])
             IN  IF ~loaded.ok
                 THEN KeywordsResult(<<>>, "Failed to parse JSON response from LLM: invalid")
                 ELSE IF loaded.value.type # "dict"
                 THEN KeywordsResult(<<>>,
                         "LLM returned JSON but it's not a dictionary. Got: "
                            \o loaded.value.type)
                 ELSE IF loaded.value.values = <<>>
                 THEN KeywordsResult(<<>>, "LLM returned an empty keywords list")
                 ELSE KeywordsResult(loaded.value.values, "")

----------------------------------------------------------------------------
(* Initial conditions of the components. Each specification starts one     *)
(* component and leaves the others idle.                                   *)

\* The longest list of raw tokens
MaxItems == 3

\* Raw tokens: blank, padded, aliases in several cases, all-lowercase,
\* all-uppercase and mixed-case names, and a name that starts with a digit.
RawTokens ==
    {"", " ", "py", " PY ", "Python", "JavaScript", "AWS", "go", "gO", "3d", "node js"}

NormIdle ==
    /\ skill_items = <<>>
    /\ normalized = <<>>
    /\ renormalized = <<>>
    /\ norm_pc = "idle"

NormStart ==
    /\ skill_items \in SeqsUpTo(RawTokens, MaxItems)
    /\ normalized = <<>>
    /\ renormalized = <<>>
    /\ norm_pc = "start"

\* The longest list of a skill profile
MaxProfileList == 2

\* Languages and tools of the profiles: "LLM Engineer" as a tool yields a
\* query that is also a fixed query, "Python" as language and as tool
\* yields "python developer" twice.
Languages == {"Python", "Go"}

Tools == {"Python", "LLM Engineer"}

\* A list field of a profile, or NoField when the profile lacks the key
NoField == <<"<missing>">>

ProfileFields(names) == SeqsUpTo(names, MaxProfileList) \cup {NoField}

\* The dict with the given list fields; a NoField field is left out
ProfileOf(core, agentic, ai_ml) ==
    LET fields == [core_languages |-> core, agentic_ai_experience |-> agentic,
                   ai_ml_experience |-> ai_ml]
    IN  [k \in {key \in DOMAIN fields : fields[key] # NoField} |-> fields[k]]

QueryIdle ==
    /\ skill_profile = <<>>
    /\ queries = <<>>
    /\ queries_again = <<>>
    /\ query_pc = "idle"

QueryStart ==
    /\ \E core \in ProfileFields(Languages), agentic \in ProfileFields(Tools),
          ai_ml \in ProfileFields({"PyTorch"}) :
          skill_profile = ProfileOf(core, agentic, ai_ml)
    /\ queries = <<>>
    /\ queries_again = <<>>
    /\ query_pc = "start"

\* The most records one search collects
MaxCollected == 3

\* The most records one scrape returns
MaxBatch == 2

\* What a scraper parses from listing cards: records without a url key, with
\* an empty url, with a whitespace url, and records that share a url but
\* differ in another field
Cards ==
    {[title |-> "A"], [title |-> "A", url |-> ""], [title |-> "A", url |-> " "],
     [title |-> "A", url |-> "u1"], [title |-> "B", url |-> "u1"],
     [title |-> "A", url |-> "u2"]}

\* A scraper tags its records with the query and its own name
Tagged(card, scraper, query) ==
    card @@ [query_used |-> query,
             source |-> IF scraper = "scrape_jobly" THEN "jobly" ELSE "duunitori"]

KeywordLists == {<<>>, <<"ai engineer">>, <<"ai engineer", "ai/engineer">>}

BoardLists ==
    {<<>>, <<"Duunitori">>, <<"Duunitori", "Jobly">>, <<"jobly", "Monster">>,
     <<"Duunitori", "duunitori">>}

SearchIdle ==
    /\ keywords = <<>>
    /\ job_boards = <<>>
    /\ search_q = 0
    /\ search_b = 0
    /\ all_jobs = <<>>
    /\ scraper_calls = <<>>
    /\ batches = <<>>
    /\ raw_files = <<>>
    /\ deduped = <<>>
    /\ search_pc = "idle"

SearchStart ==
    /\ keywords \in KeywordLists
    /\ job_boards \in BoardLists
    /\ search_q = 1
    /\ search_b = 1
    /\ all_jobs = <<>>
    /\ scraper_calls = <<>>
    /\ batches = <<>>
    /\ raw_files = <<>>
    /\ deduped = <<>>
    /\ search_pc = "loop"

\* The most files in the raw-listings directory
MaxFiles == 2

\* The most records in one raw-listings file
MaxFileJobs == 1

RECURSIVE Repeat(_, _)
\* c * n
Repeat(c, n) == IF n = 0 THEN "" ELSE c \o Repeat(c, n - 1)

\* A snippet that starts with a space and whose character 81 is `last`
LongSnippet(last) == " " \o Repeat("a", SnippetPrefixLen - 1) \o last

\* Stored records: two that differ only in case and padding, one that
\* differs in the snippet, one with nothing but whitespace, two whose fields
\* differ but join to the same string, two whose snippets agree on the
\* first 80 characters, and one with a url
StoredJobs ==
    {[url |-> "", title |-> "Dev", query_used |-> "q", description_snippet |-> "s"],
     [url |-> "", title |-> " dev", query_used |-> "Q", description_snippet |-> "S "],
     [url |-> "", title |-> "Dev", query_used |-> "q", description_snippet |-> "t"],
     [url |-> "  ", title |-> "", query_used |-> "", description_snippet |-> " "],
     [title |-> "a|b", query_used |-> "c", description_snippet |-> ""],
     [url |-> "", title |-> "a", query_used |-> "b|c", description_snippet |-> ""],
     [url |-> "", title |-> "", query_used |-> "", description_snippet |-> LongSnippet("x")],
     [url |-> "", title |-> "", query_used |-> "", description_snippet |-> LongSnippet("y")],
     [url |-> "u1", title |-> "Dev", query_used |-> "q", description_snippet |-> "s"]}

\* The names of the files of the directory, one of them not a .json file
FileNames == {"a.json", "b.json", "notes.txt"}

\* What a .json file holds: a list of records, text that does not parse, or
\* a JSON object
JsonContents ==
    {[kind |-> "list", data |-> d] : d \in SeqsUpTo(StoredJobs, MaxFileJobs)}
    \cup {[kind |-> k, data |-> <<>>] : k \in {"corrupt", "object"}}

\* The file that is not a .json file
NotesFile ==
    [name |-> "notes.txt", kind |-> "list",
     data |-> <<[url |-> "u2", title |-> "", query_used |-> "",
                 description_snippet |-> ""]>>]

\* The listings of directories: file names are distinct
Listings ==
    {l \in SeqsUpTo(FileNames, MaxFiles) :
        \A i, j \in 1..Len(l) : i # j => l[i] # l[j]}

\* The directory with the listing l whose .json files hold c
Directory(l, c) ==
    [i \in 1..Len(l) |->
        IF l[i] = "notes.txt" THEN NotesFile
        ELSE [name |-> l[i], kind |-> c[l[i]].kind, data |-> c[l[i]].data]]

LoadIdle ==
    /\ raw_dir = <<>>
    /\ unique_jobs = <<>>
    /\ load_pc = "idle"

LoadStart ==
    /\ \E l \in Listings :
          \E c \in [Range(l) \ {"notes.txt"} -> JsonContents] :
             raw_dir = Directory(l, c)
    /\ unique_jobs = <<>>
    /\ load_pc = "start"

\* The longest list of jobs to score
MaxJobs == 3

Digits == "0123456789"

\* The name of the i-th of many technologies: t01, t02, ...
TechName(i) == "t" \o CharAt(Digits, (i \div 10) + 1) \o CharAt(Digits, (i % 10) + 1)

RECURSIVE TechNames(_)
\* "t01 t02 ... " up to the n-th name
TechNames(n) == IF n = 0 THEN "" ELSE TechNames(n - 1) \o TechName(n) \o " "

\* The longest technology list of the jobs that name m of n technologies
ManyTechs == 50

Entry(name, level_kind, level) == [name |-> name, level_kind |-> level_kind, level |-> level]

DictItem(entries) == [kind |-> "dict", entries |-> entries, value |-> ""]

StrItem(value) == [kind |-> "str", entries |-> <<>>, value |-> value]

OtherItem == [kind |-> "other", entries |-> <<>>, value |-> ""]

ListCategory(items) == [kind |-> "list", items |-> items, value |-> ""]

StrCategory(value) == [kind |-> "str", items |-> <<>>, value |-> value]

OtherCategory == [kind |-> "other", items |-> <<>>, value |-> ""]

\* Technology inputs: none; two technologies; one with experience level 0;
\* an alias and its canonical name in two categories; a custom technology
\* with a text value, a bare string and values of other types; three
\* technologies; and one technology
TechStacks ==
    {<<>>,
     <<ListCategory(<<DictItem(<<Entry("Python", "int", 7)>>),
                      DictItem(<<Entry("AWS", "int", 3)>>)>>)>>,
     <<ListCategory(<<DictItem(<<Entry("Python", "int", 0)>>)>>), ListCategory(<<>>)>>,
     <<ListCategory(<<DictItem(<<Entry("py", "int", 7)>>),
                      DictItem(<<Entry("Python", "int", 2)>>)>>),
       ListCategory(<<DictItem(<<Entry("JavaScript", "int", 1)>>)>>)>>,
     <<ListCategory(<<DictItem(<<Entry("node js", "str", 0)>>), OtherItem,
                      DictItem(<<Entry("Rust", "other", 0)>>)>>),
       StrCategory("Go"), OtherCategory>>,
     <<ListCategory(<<StrItem("java"),
                      DictItem(<<Entry("AWS", "int", 5), Entry("Go", "int", 1)>>)>>)>>,
     <<ListCategory(<<DictItem(<<Entry("JavaScript", "int", 4)>>)>>)>>}

\* Job records: fields that match in another case, a technology name split
\* over two fields, a match in the full description only, a name with a
\* space split over two fields, a name inside a longer word, and a record
\* without description fields
ScrapedJobs ==
    {[title |-> "Python Developer", url |-> "u1", description_snippet |-> "AWS cloud",
      full_description |-> ""],
     [title |-> "Java", url |-> "u2", description_snippet |-> "Script guru"],
     [title |-> "Cook", url |-> "u3", description_snippet |-> "",
      full_description |-> "we use python"],
     [title |-> "Node", url |-> "u4", description_snippet |-> "js",
      full_description |-> "Gopher"],
     [title |-> "Cook", url |-> "u5"]}

ScoreIdle ==
    /\ heap = <<>>
    /\ heap_at_call = <<>>
    /\ raw_jobs = <<>>
    /\ tech_stack = <<>>
    /\ flattened_tech_stack = <<>>
    /\ scored_jobs = <<>>
    /\ scored_files = <<>>
    /\ score_pc = "idle"

\* A technology input of n distinct technologies
StackOfSize(n) ==
    <<ListCategory([i \in 1..n |-> DictItem(<<Entry(TechName(i), "int", 1)>>)])>>

\* A job whose full description names the first m of them
JobNaming(m) ==
    [title |-> "Tester", url |-> "u6", description_snippet |-> "",
     full_description |-> TechNames(m)]

\* One job, or none, and n technologies of which the job names m
RatioStart ==
    /\ \E n \in 0..ManyTechs : \E m \in 0..n :
          /\ tech_stack = StackOfSize(n)
          /\ heap \in {<<JobNaming(m)>>} \cup (IF m = 0 THEN {<<>>} ELSE {})
    /\ heap_at_call = heap
    /\ raw_jobs = [i \in 1..Len(heap) |-> i]
    /\ flattened_tech_stack = <<>>
    /\ scored_jobs = <<>>
    /\ scored_files = <<>>
    /\ score_pc = "start"

ScoreStart ==
    /\ heap \in SeqsUpTo(ScrapedJobs, MaxJobs)
    /\ heap_at_call = heap
    /\ raw_jobs = [i \in 1..Len(heap) |-> i]
    /\ tech_stack \in TechStacks
    /\ flattened_tech_stack = <<>>
    /\ scored_jobs = <<>>
    /\ scored_files = <<>>
    /\ score_pc = "start"

\* The most jobs that the search step of a pipeline run returns
MaxFound == 2

\* Form submissions: without the "general" section, and with job boards
Forms ==
    {[general |-> FALSE, job_boards |-> <<>>]}
    \cup {[general |-> TRUE, job_boards |-> b] : b \in BoardLists}

PipeIdle ==
    /\ form = [general |-> FALSE, job_boards |-> <<>>]
    /\ pipe_pc = "idle"
    /\ step_number = 0
    /\ started = <<>>
    /\ completed = <<>>
    /\ raw_count = 0
    /\ pipe_error = NoError
    /\ caught = NoError
    /\ http_response = <<>>

PipeStart ==
    /\ form \in Forms
    /\ pipe_pc = "extract"
    /\ step_number = 0
    /\ started = <<>>
    /\ completed = <<>>
    /\ raw_count = 0
    /\ pipe_error = NoError
    /\ caught = NoError
    /\ http_response = <<>>

\* The jobs that the search step of a pipeline run hands to the scoring
\* step when it has found n of them
FoundJobs(n) ==
    SubSeq(<<[title |-> "Python Developer", url |-> "u1",
              description_snippet |-> "AWS cloud", full_description |-> ""],
             [title |-> "Cook", url |-> "u3", description_snippet |-> "",
              full_description |-> "we use python"],
             [title |-> "Java", url |-> "u2", description_snippet |-> "Script guru"],
             [title |-> "Cook", url |-> "u5"]>>, 1, n)

\* The most search pages a scrape is asked for, and the most pages with
\* cards that the server has
MaxPages == 3

\* The query of the scrape
ScrapedQuery == "python developer"

\* The title of the i-th card of page p
CardTitle(p, i) ==
    "job " \o CharAt(Digits, p + 1) \o "." \o CharAt(Digits, (i \div 10) + 1)
       \o CharAt(Digits, (i % 10) + 1)

\* Cards by what their detail page does: a card without a link, a detail
\* page with a description, one that answers after a 503, one that is gone,
\* one that stays rate-limited, one that cannot be reached, one without a
\* description, and one whose fetch raises an error that is no
\* RequestException
CardKinds == <<"no_url", "described", "slow", "gone", "busy", "unreachable", "bare", "broken">>

DetailAttempts(kind) ==
    CASE kind = "slow" -> <<Status(503), Status(200)>>
      [] kind = "gone" -> <<Status(404)>>
      [] kind = "busy" -> <<Status(429), Status(503)>>
      [] kind = "unreachable" -> <<Raises("RequestException")>>
      [] kind = "broken" -> <<Raises("Exception")>>
      [] OTHER -> <<Status(200)>>

Card(kind, p, i) ==
    [kind |-> kind,
     title |-> CardTitle(p, i),
     url |-> IF kind = "no_url" THEN "" ELSE "https://duunitori.fi/tyopaikat/" \o CardTitle(p, i),
     attempts |-> DetailAttempts(kind),
     description |-> IF kind = "bare" THEN "" ELSE "Full text of " \o CardTitle(p, i)]

\* Search pages: full pages (one of them after a 503), pages with fewer
\* cards than a full page, a page without cards, pages that answer 404 or
\* 304, a page whose retries are used up, and a page whose fetch raises an
\* error that is no RequestException
PageKinds ==
    {"full", "full_retry", "short_a", "short_b", "empty", "not_found", "not_modified",
     "exhausted", "crash"}

PageAttempts(kind) ==
    CASE kind = "full_retry" -> <<Status(503), Status(200)>>
      [] kind = "not_found" -> <<Status(404)>>
      [] kind = "not_modified" -> <<Status(304)>>
      [] kind = "exhausted" -> <<Status(503), Raises("RequestException"), Status(429)>>
      [] kind = "crash" -> <<Raises("Exception")>>
      [] OTHER -> <<Status(200)>>

PageCards(kind, p) ==
    CASE kind \in {"full", "full_retry"} ->
            [i \in 1..FullPageSize |-> Card(CardKinds[((i - 1) % Len(CardKinds)) + 1], p, i)]
      [] kind = "short_a" -> <<Card("gone", p, 1), Card("described", p, 2)>>
      [] kind = "short_b" -> <<Card("bare", p, 1), Card("no_url", p, 2), Card("broken", p, 3)>>
      [] OTHER -> <<>>

SearchPage(kind, p) == [kind |-> kind, attempts |-> PageAttempts(kind), cards |-> PageCards(kind, p)]

\* What the server has for a query: full pages, then one page of any kind
Sites ==
    UNION {{[p \in 1..n |-> SearchPage(IF p < n THEN full[p] ELSE last, p)] :
               full \in [1..(n - 1) -> {"full", "full_retry"}], last \in PageKinds} :
           n \in 1..MaxPages}

\* The search page p of the server s: behind its last page the server
\* answers with pages without cards
SitePage(s, p) == IF p <= Len(s) THEN s[p] ELSE SearchPage("empty", p)

\* deep_mode as the tests and the defaults pass it (a bool) and as main
\* passes it for a form that says "No"
DeepModes == {PyBool(TRUE), PyBool(FALSE), PyStr("No")}

\* per_page_limit: None, 0, a limit reached within a page, at the end of a
\* full page, and on the page after a full page
Limits == {<<>>, <<0>>, <<2>>, <<20>>, <<21>>}

ScrapeIdle ==
    /\ site = <<>>
    /\ num_pages = 0
    /\ deep_mode = PyBool(TRUE)
    /\ per_page_limit = <<>>
    /\ page = 0
    /\ job_cards = <<>>
    /\ card_i = 0
    /\ results = <<>>
    /\ trace = <<>>
    /\ scrape_pc = "idle"

ScrapeStart ==
    /\ num_pages \in 1..MaxPages
    /\ site \in Sites
    /\ deep_mode \in DeepModes
    /\ per_page_limit \in Limits
    /\ page = 1
    /\ job_cards = <<>>
    /\ card_i = 0
    /\ results = <<>>
    /\ trace = <<>>
    /\ scrape_pc = "fetch"

\* The longest list of a stored or new profile
MaxSkills == 2

\* Duplicate-free lists over S, as normalize_list and the merge leave them
DistinctLists(S, n) ==
    {l \in SeqsUpTo(S, n) : \A i, j \in 1..Len(l) : i # j => l[i] # l[j]}

\* The profile with the given name, languages and levels whose other seven
\* list fields hold the list `others`
ProfileWith(name, languages, others, levels) ==
    [key \in ListFields \cup {"name", "experience_level"} |->
        IF key = "name" THEN name
        ELSE IF key = "experience_level" THEN levels
        ELSE IF key = "core_languages" THEN languages
        ELSE others]

LevelsOf(python, javascript, agentic, ai_ml) ==
    [level \in LevelNames |->
        CASE level = "Python" -> python
          [] level = "JavaScript" -> javascript
          [] level = "Agentic AI" -> agentic
          [] OTHER -> ai_ml]

StoredProfiles ==
    {ProfileWith(name, languages, others, levels) :
        name \in {"", "Ada"},
        languages \in DistinctLists({"Python", "Go"}, MaxSkills),
        others \in {<<>>, <<"Docker">>},
        levels \in {LevelsOf(0, 0, 0, 0), LevelsOf(5, 1, 0, 3)}}

NewProfiles ==
    {ProfileWith(name, languages, others, levels) :
        name \in {"", "Bob"},
        languages \in DistinctLists({"Python", "Go"}, MaxSkills),
        others \in {<<>>, <<"Docker">>, <<"Git", "Docker">>},
        levels \in {LevelsOf(0, 0, 0, 0), LevelsOf(2, 4, 0, 3)}}

\* What a snapshot file holds: a profile, text that is not JSON, a JSON
\* object that is not valid against the schema, or a JSON array
ProfileFile(profile) == [kind |-> "profile", data |-> profile]

CorruptFile(kind) == [kind |-> kind, data |-> <<>>]

OlderName == SnapshotName("20250101_090000")

OldName == SnapshotName("20250110_120000")

\* The snapshot directories: missing, empty, with one snapshot, with an
\* older snapshot behind a corrupt latest one, with a readable latest
\* snapshot behind a corrupt older one, and with only corrupt files
SnapshotDirs ==
    {[exists |-> FALSE, files |-> <<>>], [exists |-> TRUE, files |-> <<>>]}
    \cup {[exists |-> TRUE, files |-> (OldName :> ProfileFile(e))] : e \in StoredProfiles}
    \cup {[exists |-> TRUE,
           files |-> (OlderName :> ProfileFile(e)) @@ (OldName :> CorruptFile(kind))] :
             e \in StoredProfiles, kind \in {"not_json", "invalid"}}
    \cup {[exists |-> TRUE,
           files |-> (OlderName :> CorruptFile("not_json")) @@ (OldName :> ProfileFile(e))] :
             e \in StoredProfiles}
    \cup {[exists |-> TRUE, files |-> (OldName :> CorruptFile(kind))] :
             kind \in {"not_json", "invalid", "array"}}

ProfileIdle ==
    /\ vector_db = [exists |-> FALSE, files |-> <<>>]
    /\ db_at_call = [exists |-> FALSE, files |-> <<>>]
    /\ skill_profile_new = <<>>
    /\ merged_profile = <<>>
    /\ profile_pc = "idle"
    /\ run_timestamp = ""
    /\ creations = 0
    /\ saved = FALSE

ProfileStart ==
    /\ vector_db \in SnapshotDirs
    /\ db_at_call = vector_db
    /\ skill_profile_new \in NewProfiles
    /\ merged_profile = <<>>
    /\ profile_pc = "start"
    /\ run_timestamp = Timestamp
    /\ creations = 1
    /\ saved = FALSE

\* The longest sequence of profile creations
MaxCreations == 3

\* The timestamps of the runs of a sequence: a run may start in the second
\* of the run before it, and datetime.now() is local time, which can go back
RunTimestamps == {"20250115_143022", "20250301_080000"}

\* The profiles that the runs of a sequence create
SubmittedProfiles ==
    {ProfileWith("", <<>>, <<>>, LevelsOf(0, 0, 0, 0)),
     ProfileWith("Bob", <<"Python">>, <<"Git">>, LevelsOf(2, 4, 0, 3)),
     ProfileWith("", <<"Go", "Python">>, <<"Docker">>, LevelsOf(7, 0, 1, 0)),
     ProfileWith("Eve", <<"Rust">>, <<>>, LevelsOf(0, 6, 0, 0))}

\* The directories a sequence starts from: empty, with one snapshot, with
\* a snapshot of the first timestamp behind an older one, and with a
\* corrupt latest snapshot
FirstDirs ==
    {[exists |-> TRUE, files |-> <<>>],
     [exists |-> TRUE,
      files |-> (OldName :> ProfileFile(ProfileWith("Ada", <<"Go">>, <<"Docker">>,
                                                    LevelsOf(5, 1, 0, 3))))],
     [exists |-> TRUE,
      files |-> (OlderName :> ProfileFile(ProfileWith("Ada", <<"Go">>, <<>>,
                                                      LevelsOf(5, 1, 0, 3))))
                @@ (SnapshotName("20250115_143022") :>
                        ProfileFile(ProfileWith("", <<"Python">>, <<"Docker">>,
                                                LevelsOf(0, 0, 2, 0))))],
     [exists |-> TRUE,
      files |-> (OlderName :> ProfileFile(ProfileWith("Ada", <<"Go">>, <<"Docker">>,
                                                      LevelsOf(5, 1, 0, 3))))
                @@ (OldName :> CorruptFile("not_json"))]}

SnapshotsStart ==
    /\ vector_db \in FirstDirs
    /\ db_at_call = vector_db
    /\ skill_profile_new \in SubmittedProfiles
    /\ merged_profile = <<>>
    /\ profile_pc = "start"
    /\ run_timestamp \in RunTimestamps
    /\ creations = 1
    /\ saved = FALSE

\* What the server may do with one GET request
GetOutcomes ==
    {Status(200), Status(404), Status(429), Status(503),
     Raises("RequestException"), Raises("ValueError")}

\* The values of backoff, in seconds
Backoffs == {1, 2}

FetchIdle ==
    /\ fetch_outcomes = <<>>
    /\ fetch_retries = 0
    /\ fetch_backoff = 0
    /\ fetch_attempt = 0
    /\ fetch_log = <<>>
    /\ fetch_result = <<>>
    /\ fetch_pc = "idle"

FetchStart ==
    /\ fetch_retries \in {DetailRetries, SearchRetries}
    /\ fetch_outcomes \in [1..fetch_retries -> GetOutcomes]
    /\ fetch_backoff \in Backoffs
    /\ fetch_attempt = 1
    /\ fetch_log = <<>>
    /\ fetch_result = <<>>
    /\ fetch_pc = "loop"

\* The largest max_retries of a call of call_llm
MaxLlmRetries == 3

\* What one API call may do
ApiOutcomes ==
    {ApiRaises(type) : type \in RetryableErrors \cup {"AuthenticationError"}}
    \cup {ApiResponse("text", "ok"), ApiResponse("no_choices", ""),
          ApiResponse("none_content", "")}

LlmIdle ==
    /\ max_retries = 0
    /\ retry_delay = 0
    /\ llm_attempt = 0
    /\ llm_log = <<>>
    /\ llm_result = <<>>
    /\ llm_error = NoError
    /\ llm_pc = "idle"

LlmStart ==
    /\ max_retries \in 0..MaxLlmRetries
    /\ retry_delay \in {1, 3}
    /\ llm_attempt = 0
    /\ llm_log = <<>>
    /\ llm_result = <<>>
    /\ llm_error = NoError
    /\ llm_pc = "loop"

\* The longest text given to extract_json
MaxText == 5

\* The characters of the texts: braces, a quote and a letter
TextChars == {"{", "}", "\"", "a"}

RECURSIVE Join(_)
\* The string of the characters of a list
Join(chars) == IF chars = <<>> THEN "" ELSE Head(chars) \o Join(Tail(chars))

JsonIdle ==
    /\ llm_text = ""
    /\ extracted = <<>>
    /\ json_pc = "idle"

JsonStart ==
    /\ \E chars \in SeqsUpTo(TextChars, MaxText) : llm_text = Join(chars)
    /\ extracted = <<>>
    /\ json_pc = "start"

\* The largest max_retries of a call of create_keywords
MaxKeywordRetries == 2

\* The responses of the LLM: without a brace, with a span that is not
\* JSON, a JSON string with a brace, an empty object, and objects with
\* keywords, bare and inside other text
LlmResponses ==
    {"no keywords", "Here: {not json}", "\"{\"", "{}",
     "{\"1\": \"ai engineer\", \"2\": \"ml engineer\"}",
     "Sure: {\"1\": \"ai engineer\"} done"}

\* What one call of call_llm may do: return a response, raise the
\* ValueError of its validation, or raise the error of its last attempt
CallOutcomes ==
    {[text |-> t] : t \in LlmResponses}
    \cup {[raises |-> "ValueError"], [raises |-> "RateLimitError"]}

KeywordsIdle ==
    /\ kw_max_retries = 0
    /\ kw_attempt = 0
    /\ kw_log = <<>>
    /\ kw_result = <<>>
    /\ kw_error = NoError
    /\ kw_pc = "idle"

KeywordsStart ==
    /\ kw_max_retries \in -1..MaxKeywordRetries
    /\ kw_attempt = 0
    /\ kw_log = <<>>
    /\ kw_result = <<>>
    /\ kw_error = NoError
    /\ kw_pc = "loop"

----------------------------------------------------------------------------
(* Specification SpecNorm: normalize_list applied to a list of raw tokens, *)
(* then applied again to its own output.                                   *)

NormInit ==
    /\ NormStart /\ QueryIdle /\ SearchIdle /\ LoadIdle /\ ScoreIdle /\ PipeIdle
    /\ ScrapeIdle /\ ProfileIdle /\ FetchIdle /\ LlmIdle /\ JsonIdle /\ KeywordsIdle

NormalizeList ==
    /\ norm_pc = "start"
    /\ normalized' = normalize_list(skill_items)
    /\ norm_pc' = "once"
    /\ UNCHANGED <<skill_items, renormalized, otherThanNorm>>

NormalizeAgain ==
    /\ norm_pc = "once"
    /\ renormalized' = normalize_list(normalized)
    /\ norm_pc' = "twice"
    /\ UNCHANGED <<skill_items, normalized, otherThanNorm>>

NormNext == NormalizeList \/ NormalizeAgain

SpecNorm == NormInit /\ [][NormNext]_vars

----------------------------------------------------------------------------
(* Specification SpecQueries: build_queries called twice on one profile.   *)

QueryInit ==
    /\ QueryStart /\ NormIdle /\ SearchIdle /\ LoadIdle /\ ScoreIdle /\ PipeIdle
    /\ ScrapeIdle /\ ProfileIdle /\ FetchIdle /\ LlmIdle /\ JsonIdle /\ KeywordsIdle

BuildQueries ==
    /\ query_pc = "start"
    /\ \E order \in IterationOrders(QuerySet(skill_profile)) :
          queries' = build_queries(skill_profile, order)
    /\ query_pc' = "once"
    /\ UNCHANGED <<skill_profile, queries_again, otherThanQuery>>

BuildQueriesAgain ==
    /\ query_pc = "once"
    /\ \E order \in IterationOrders(QuerySet(skill_profile)) :
          queries_again' = build_queries(skill_profile, order)
    /\ query_pc' = "twice"
    /\ UNCHANGED <<skill_profile, queries, otherThanQuery>>

QueryNext == BuildQueries \/ BuildQueriesAgain

SpecQueries == QueryInit /\ [][QueryNext]_vars

----------------------------------------------------------------------------
(* Specification SpecSearch: one call of search_jobs. Every pass of the    *)
(* inner loop is one step: the scrape, all_jobs.extend and _save_raw_jobs. *)

SearchInit ==
    /\ SearchStart /\ NormIdle /\ QueryIdle /\ LoadIdle /\ ScoreIdle /\ PipeIdle
    /\ ScrapeIdle /\ ProfileIdle /\ FetchIdle /\ LlmIdle /\ JsonIdle /\ KeywordsIdle

\* The loops have a (query, board) pair left
InLoop == search_q <= Len(keywords) /\ search_b <= Len(job_boards)

\* The loop position moves to the next board, or to the next query
Advance ==
    IF search_b < Len(job_boards)
    THEN search_b' = search_b + 1 /\ search_q' = search_q
    ELSE search_b' = 1 /\ search_q' = search_q + 1

\* The batches a scraper may return for the board and query at hand
Batches(scraper, query) ==
    {[i \in 1..Len(cards) |-> Tagged(cards[i], scraper, query)] :
        cards \in {c \in SeqsUpTo(Cards, MaxBatch) : Len(all_jobs) + Len(c) <= MaxCollected}}

\* A pass for a known board whose batch is empty (nothing is written) or is
\* written to its raw file
SearchKnownBoard ==
    /\ search_pc = "loop" /\ InLoop
    /\ ScraperFor(job_boards[search_b]) # ""
    /\ \E jobs \in Batches(ScraperFor(job_boards[search_b]), keywords[search_q]) :
          /\ all_jobs' = all_jobs \o jobs
          /\ batches' = Append(batches, jobs)
          /\ raw_files' =
                IF jobs = <<>> THEN raw_files
                ELSE (RawFileName(job_boards[search_b], keywords[search_q]) :> jobs)
                        @@ raw_files
    /\ scraper_calls' =
          Append(scraper_calls, <<ScraperFor(job_boards[search_b]), keywords[search_q]>>)
    /\ Advance
    /\ UNCHANGED <<keywords, job_boards, deduped, search_pc, otherThanSearch>>

\* A pass for a known board whose non-empty batch cannot be written: open()
\* or json.dump raises in _save_raw_jobs and the error leaves search_jobs
SearchWriteFails ==
    /\ search_pc = "loop" /\ InLoop
    /\ ScraperFor(job_boards[search_b]) # ""
    /\ \E jobs \in Batches(ScraperFor(job_boards[search_b]), keywords[search_q]) \ {<<>>} :
          /\ all_jobs' = all_jobs \o jobs
          /\ batches' = Append(batches, jobs)
    /\ scraper_calls' =
          Append(scraper_calls, <<ScraperFor(job_boards[search_b]), keywords[search_q]>>)
    /\ search_pc' = "raised"
    /\ UNCHANGED <<keywords, job_boards, search_q, search_b, raw_files, deduped,
                   otherThanSearch>>

\* A pass for an unknown board: a warning, an empty batch, nothing written
SearchUnknownBoard ==
    /\ search_pc = "loop" /\ InLoop
    /\ ScraperFor(job_boards[search_b]) = ""
    /\ batches' = Append(batches, <<>>)
    /\ Advance
    /\ UNCHANGED <<keywords, job_boards, all_jobs, scraper_calls, raw_files, deduped,
                   search_pc, otherThanSearch>>

\* After the loops: return self._deduplicate_jobs(all_jobs)
SearchDeduplicate ==
    /\ search_pc = "loop" /\ ~InLoop
    /\ deduped' = _deduplicate_jobs(all_jobs)
    /\ search_pc' = "done"
    /\ UNCHANGED <<keywords, job_boards, search_q, search_b, all_jobs, scraper_calls,
                   batches, raw_files, otherThanSearch>>

SearchNext ==
    SearchKnownBoard \/ SearchWriteFails \/ SearchUnknownBoard \/ SearchDeduplicate

SpecSearch == SearchInit /\ [][SearchNext]_vars

----------------------------------------------------------------------------
(* Specification SpecLoad: one call of ScorerAgent._load_job_listings.     *)

LoadInit ==
    /\ LoadStart /\ NormIdle /\ QueryIdle /\ SearchIdle /\ ScoreIdle /\ PipeIdle
    /\ ScrapeIdle /\ ProfileIdle /\ FetchIdle /\ LlmIdle /\ JsonIdle /\ KeywordsIdle

LoadJobListings ==
    /\ load_pc = "start"
    /\ unique_jobs' = _load_job_listings(raw_dir)
    /\ load_pc' = "done"
    /\ UNCHANGED <<raw_dir, otherThanLoad>>

LoadNext == LoadJobListings

SpecLoad == LoadInit /\ [][LoadNext]_vars

----------------------------------------------------------------------------
(* Specification SpecScore: one call of ScorerService.score_jobs.          *)

ScoreInit ==
    /\ ScoreStart /\ NormIdle /\ QueryIdle /\ SearchIdle /\ LoadIdle /\ PipeIdle
    /\ ScrapeIdle /\ ProfileIdle /\ FetchIdle /\ LlmIdle /\ JsonIdle /\ KeywordsIdle

\* An empty job list: a warning and an empty result
ScoreNoJobs ==
    /\ score_pc = "start"
    /\ raw_jobs = <<>>
    /\ scored_jobs' = <<>>
    /\ score_pc' = "done"
    /\ UNCHANGED <<heap, heap_at_call, raw_jobs, tech_stack, flattened_tech_stack,
                   scored_files, otherThanScore>>

\* _compute_scores and the sort. _compute_scores flattens and normalizes
\* the technology input before it scores the jobs.
ScoreEffects ==
    /\ score_pc = "start"
    /\ raw_jobs # <<>>
    /\ LET computed == _compute_scores(heap, raw_jobs, tech_stack)
       IN  /\ heap' = computed.heap
           /\ scored_jobs' = SortByScore(computed.heap, computed.scored_jobs)
           /\ flattened_tech_stack' = computed.flattened_tech_stack
    /\ score_pc' = "done"
    /\ UNCHANGED <<heap_at_call, raw_jobs, tech_stack, otherThanScore>>

\* Jobs are scored, sorted and written to the scored-listings file
ScoreAndSave ==
    /\ ScoreEffects
    /\ scored_files' =
          (ScoredFileName :> [i \in 1..Len(scored_jobs') |-> heap'[scored_jobs'[i]]])
             @@ scored_files

\* Jobs are scored and sorted; writing the file fails, which
\* _save_scored_jobs catches and logs
ScoreSaveFails ==
    /\ ScoreEffects
    /\ UNCHANGED scored_files

ScoreNext == ScoreNoJobs \/ ScoreAndSave \/ ScoreSaveFails

SpecScore == ScoreInit /\ [][ScoreNext]_vars

----------------------------------------------------------------------------
(* Specification SpecRatio: score_jobs for one job that names m of n       *)
(* candidate technologies, for every m <= n up to ManyTechs.               *)

RatioInit ==
    /\ RatioStart /\ NormIdle /\ QueryIdle /\ SearchIdle /\ LoadIdle /\ PipeIdle
    /\ ScrapeIdle /\ ProfileIdle /\ FetchIdle /\ LlmIdle /\ JsonIdle /\ KeywordsIdle

SpecRatio == RatioInit /\ [][ScoreNext]_vars

----------------------------------------------------------------------------
(* Specification Spec: one run of main. Calling a step function and its    *)
(* return or its exception are separate steps.                             *)

Init ==
    /\ PipeStart /\ NormIdle /\ QueryIdle /\ SearchIdle /\ LoadIdle /\ ScoreIdle
    /\ ScrapeIdle /\ ProfileIdle /\ FetchIdle /\ LlmIdle /\ JsonIdle /\ KeywordsIdle

\* extract_form_data reads the "general" section of the form
ExtractFormData ==
    /\ pipe_pc = "extract"
    /\ form.general
    /\ pipe_pc' = "init"
    /\ UNCHANGED <<form, step_number, started, completed, raw_count, pipe_error,
                   caught, http_response, otherThanPipe>>

\* extract_form_data subscripts None when the form has no "general" section
ExtractFormDataRaises ==
    /\ pipe_pc = "extract"
    /\ ~form.general
    /\ pipe_pc' = "raised"
    /\ pipe_error' = Exception("TypeError", "'NoneType' object is not subscriptable", <<>>)
    /\ UNCHANGED <<form, step_number, started, completed, raw_count, caught,
                   http_response, otherThanPipe>>

\* The agents and services are constructed
InitAgents ==
    /\ pipe_pc = "init"
    /\ pipe_pc' = "call"
    /\ step_number' = 1
    /\ UNCHANGED <<form, started, completed, raw_count, pipe_error, caught,
                   http_response, otherThanPipe>>

\* A constructor raises: main raises a RuntimeError before any step. main
\* constructs ProfilerAgent without arguments while agents/profiler.py
\* declares __init__(self, timestamp), a call that raises TypeError.
InitAgentsRaises ==
    /\ pipe_pc = "init"
    /\ pipe_pc' = "raised"
    /\ pipe_error' =
          Exception("RuntimeError",
                    " Failed to initialize agents and services: missing argument",
                    <<Exception("TypeError", "missing argument", <<>>)>>)
    /\ UNCHANGED <<form, step_number, started, completed, raw_count, caught,
                   http_response, otherThanPipe>>

\* main calls the decorated function of the next step
StepStarts ==
    /\ pipe_pc = "call"
    /\ started' = Append(started, step_number)
    /\ pipe_pc' = "running"
    /\ UNCHANGED <<form, step_number, completed, raw_count, pipe_error, caught,
                   http_response, otherThanPipe>>

\* Some board of the form has a scraper
SomeKnownBoard == \E i \in 1..Len(form.job_boards) : ScraperFor(form.job_boards[i]) # ""

\* The step function returns; the search step returns its jobs
StepReturns ==
    /\ pipe_pc = "running"
    /\ StepMayReturn(step_number, raw_count)
    /\ completed' = Append(completed, step_number)
    /\ raw_count' \in (IF step_number # 3 THEN {raw_count}
                       ELSE IF SomeKnownBoard THEN 0..MaxFound ELSE {0})
    /\ LET after == pipeline_step(step_number, FALSE, NoError)
       IN  /\ pipe_pc' = after.pipe_pc
           /\ step_number' = after.step_number
           /\ pipe_error' = after.pipe_error
    /\ UNCHANGED <<form, started, caught, http_response, otherThanPipe>>

\* The step function raises
StepRaises ==
    /\ pipe_pc = "running"
    /\ \E e \in StepErrors(step_number, raw_count) :
          LET after == pipeline_step(step_number, TRUE, e)
          IN  /\ pipe_pc' = after.pipe_pc
              /\ step_number' = after.step_number
              /\ pipe_error' = after.pipe_error
              /\ caught' = e
    /\ UNCHANGED <<form, started, completed, raw_count, http_response, otherThanPipe>>

\* run_pipeline answers with the document that main returned
RespondWithDocument ==
    /\ pipe_pc = "returned"
    /\ http_response = <<>>
    /\ http_response' = <<HttpResponse(200, Timestamp \o "_cover_letter.docx")>>
    /\ UNCHANGED <<form, pipe_pc, step_number, started, completed, raw_count, pipe_error,
                   caught, otherThanPipe>>

\* run_pipeline catches the exception that left main and answers with an
\* HTTPException
RespondWithError ==
    /\ pipe_pc = "raised"
    /\ http_response = <<>>
    /\ http_response' = <<run_pipeline_except(pipe_error)>>
    /\ UNCHANGED <<form, pipe_pc, step_number, started, completed, raw_count, pipe_error,
                   caught, otherThanPipe>>

Next ==
    \/ ExtractFormData \/ ExtractFormDataRaises
    \/ InitAgents \/ InitAgentsRaises
    \/ StepStarts \/ StepReturns \/ StepRaises
    \/ RespondWithDocument \/ RespondWithError

Spec == Init /\ [][Next]_vars

----------------------------------------------------------------------------
(* Specification SpecScoring: one run of main in which the scoring step    *)
(* calls score_jobs on the jobs that the search step returned.             *)

\* A step other than the scoring step returns or raises
OtherStepReturns == step_number # 4 /\ StepReturns

OtherStepRaises == step_number # 4 /\ StepRaises

\* _step4_score calls scorer.score_jobs(raw_jobs, tech_stack)
ScoreJobsCalled ==
    /\ pipe_pc = "running"
    /\ step_number = 4
    /\ score_pc = "idle"
    /\ heap' = FoundJobs(raw_count)
    /\ heap_at_call' = heap'
    /\ raw_jobs' = [i \in 1..raw_count |-> i]
    /\ tech_stack' \in TechStacks
    /\ score_pc' = "start"
    /\ UNCHANGED <<flattened_tech_stack, scored_jobs, scored_files, otherThanScore>>

\* score_jobs has returned a list with jobs: _step4_score returns it
ScoreStepReturns ==
    /\ pipe_pc = "running"
    /\ step_number = 4
    /\ score_pc = "done"
    /\ ~ScoredNothing(scored_jobs)
    /\ completed' = Append(completed, step_number)
    /\ LET after == pipeline_step(step_number, FALSE, NoError)
       IN  /\ pipe_pc' = after.pipe_pc
           /\ step_number' = after.step_number
           /\ pipe_error' = after.pipe_error
    /\ UNCHANGED <<form, started, raw_count, caught, http_response, otherThanPipe>>

\* score_jobs has returned an empty list: _step4_score raises ValueError
ScoreStepRaises ==
    /\ pipe_pc = "running"
    /\ step_number = 4
    /\ score_pc = "done"
    /\ ScoredNothing(scored_jobs)
    /\ LET after == pipeline_step(step_number, TRUE, NoJobsScored)
       IN  /\ pipe_pc' = after.pipe_pc
           /\ step_number' = after.step_number
           /\ pipe_error' = after.pipe_error
    /\ caught' = NoJobsScored
    /\ UNCHANGED <<form, started, completed, raw_count, http_response, otherThanPipe>>

ScoringNext ==
    \/ ExtractFormData \/ ExtractFormDataRaises
    \/ InitAgents \/ InitAgentsRaises
    \/ StepStarts \/ OtherStepReturns \/ OtherStepRaises
    \/ ScoreJobsCalled \/ ScoreNoJobs \/ ScoreAndSave \/ ScoreSaveFails
    \/ ScoreStepReturns \/ ScoreStepRaises
    \/ RespondWithDocument \/ RespondWithError

SpecScoring == Init /\ [][ScoringNext]_vars

----------------------------------------------------------------------------
(* Specification SpecScrape: one call of scrape_duunitori. A step fetches  *)
(* a search page, handles one card, or ends a page.                        *)

ScrapeInit ==
    /\ ScrapeStart /\ NormIdle /\ QueryIdle /\ SearchIdle /\ LoadIdle /\ ScoreIdle
    /\ PipeIdle /\ ProfileIdle /\ FetchIdle /\ LlmIdle /\ JsonIdle /\ KeywordsIdle

\* n GET requests, or the appending of a record
Event(ev, p, url) == [ev |-> ev, page |-> p, url |-> url]

Gets(ev, p, url, n) == [k \in 1..n |-> Event(ev, p, url)]

\* The page loop goes on with the next page, or ends after page num_pages
NextPageOrReturn ==
    IF page = num_pages
    THEN page' = page /\ scrape_pc' = "returned"
    ELSE page' = page + 1 /\ scrape_pc' = "fetch"

\* The search page is fetched; the scrape stops, or goes on with its cards
FetchSearchPage ==
    /\ scrape_pc = "fetch"
    /\ LET fetched == _fetch_page(SitePage(site, page).attempts, SearchRetries)
           verdict == PageVerdict(fetched, SitePage(site, page).cards)
       IN  /\ trace' = trace \o Gets("search", page, "", fetched.gets)
           /\ IF fetched.raised
              THEN scrape_pc' = "raised" /\ UNCHANGED <<page, job_cards, card_i>>
              ELSE IF verdict = "break"
              THEN scrape_pc' = "returned" /\ UNCHANGED <<page, job_cards, card_i>>
              ELSE IF verdict = "cards"
              THEN /\ job_cards' = SitePage(site, page).cards
                   /\ card_i' = 1
                   /\ scrape_pc' = "cards"
                   /\ page' = page
              ELSE NextPageOrReturn /\ UNCHANGED <<job_cards, card_i>>
    /\ UNCHANGED <<site, num_pages, deep_mode, per_page_limit, results, otherThanScrape>>

\* The body of the card loop: the card is parsed, its detail page is
\* fetched in deep mode, the record is appended, and the scrape returns
\* when the limit is reached
HandleCard ==
    /\ scrape_pc = "cards"
    /\ card_i <= Len(job_cards)
    /\ LET card == job_cards[card_i]
           detail_gets ==
               IF FetchesDetail(deep_mode, _parse_job_card(card))
               THEN _fetch_full_job_description(card).gets
               ELSE 0
       IN  /\ results' = Append(results, JobRecord(card, deep_mode, ScrapedQuery))
           /\ trace' = trace \o Gets("detail", page, card.url, detail_gets)
                          \o <<Event("append", page, card.url)>>
    /\ IF LimitReached(per_page_limit, Len(results'))
       THEN scrape_pc' = "returned" /\ card_i' = card_i
       ELSE scrape_pc' = "cards" /\ card_i' = card_i + 1
    /\ UNCHANGED <<site, num_pages, deep_mode, per_page_limit, page, job_cards,
                   otherThanScrape>>

\* After the last card of a page: the scrape returns after a page that is
\* not full, and goes on with the next page otherwise
EndOfPage ==
    /\ scrape_pc = "cards"
    /\ card_i > Len(job_cards)
    /\ IF ShortPage(job_cards)
       THEN scrape_pc' = "returned" /\ page' = page
       ELSE NextPageOrReturn
    /\ UNCHANGED <<site, num_pages, deep_mode, per_page_limit, job_cards, card_i, results,
                   trace, otherThanScrape>>

ScrapeNext == FetchSearchPage \/ HandleCard \/ EndOfPage

SpecScrape == ScrapeInit /\ [][ScrapeNext]_vars

\* The same with the scrape running on: the code is sequential, every GET
\* request has a timeout and every sleep ends, so a step that can be taken
\* is taken
SpecScrapeLive == ScrapeInit /\ [][ScrapeNext]_vars /\ WF_vars(ScrapeNext)

----------------------------------------------------------------------------
(* Specification SpecProfile: one call of ProfilerAgent._merge_profiles.   *)

ProfileInit ==
    /\ ProfileStart /\ NormIdle /\ QueryIdle /\ SearchIdle /\ LoadIdle /\ ScoreIdle
    /\ PipeIdle /\ ScrapeIdle /\ FetchIdle /\ LlmIdle /\ JsonIdle /\ KeywordsIdle

\* The existing profile is loaded, the new profile is merged with it when
\* there is one, and the result is saved and returned
MergeAndSave ==
    /\ profile_pc = "start"
    /\ merged_profile' = <<_merge_profiles(vector_db, skill_profile_new)>>
    /\ vector_db' = Saved(vector_db, _merge_profiles(vector_db, skill_profile_new))
    /\ profile_pc' = "done"
    /\ UNCHANGED <<db_at_call, skill_profile_new, run_timestamp, creations, saved,
                   otherThanProfile>>

\* The same, but the snapshot cannot be written: _save_profile logs the
\* error and the profile is returned
MergeSaveFails ==
    /\ profile_pc = "start"
    /\ merged_profile' = <<_merge_profiles(vector_db, skill_profile_new)>>
    /\ profile_pc' = "done"
    /\ UNCHANGED <<vector_db, db_at_call, skill_profile_new, run_timestamp, creations,
                   saved, otherThanProfile>>

ProfileNext == MergeAndSave \/ MergeSaveFails

SpecProfile == ProfileInit /\ [][ProfileNext]_vars

----------------------------------------------------------------------------
(* Specification SpecSnapshots: a sequence of profile creations, one after *)
(* the other as the endpoint runs them, on one snapshot directory.         *)

SnapshotsInit ==
    /\ SnapshotsStart /\ NormIdle /\ QueryIdle /\ SearchIdle /\ LoadIdle /\ ScoreIdle
    /\ PipeIdle /\ ScrapeIdle /\ FetchIdle /\ LlmIdle /\ JsonIdle /\ KeywordsIdle

\* _merge_profiles of the run: the latest snapshot is loaded, the new
\* profile is merged with it when it can be read, and the result is
\* written under the timestamp of the run
CreateAndSave ==
    /\ profile_pc = "start"
    /\ vector_db.exists
    /\ merged_profile' = <<_merge_profiles(vector_db, skill_profile_new)>>
    /\ vector_db' = _save_profile(vector_db, run_timestamp,
                                  _merge_profiles(vector_db, skill_profile_new))
    /\ saved' = TRUE
    /\ profile_pc' = "done"
    /\ UNCHANGED <<db_at_call, skill_profile_new, run_timestamp, creations,
                   otherThanProfile>>

\* The same, but the snapshot cannot be written: the error is logged
CreateSaveFails ==
    /\ profile_pc = "start"
    /\ merged_profile' = <<_merge_profiles(vector_db, skill_profile_new)>>
    /\ saved' = FALSE
    /\ profile_pc' = "done"
    /\ UNCHANGED <<vector_db, db_at_call, skill_profile_new, run_timestamp, creations,
                   otherThanProfile>>

\* The next run begins: a ProfilerAgent with the timestamp of the run and
\* a new profile to merge
NextCreation ==
    /\ profile_pc = "done"
    /\ creations < MaxCreations
    /\ creations' = creations + 1
    /\ run_timestamp' \in RunTimestamps
    /\ skill_profile_new' \in SubmittedProfiles
    /\ db_at_call' = vector_db
    /\ merged_profile' = <<>>
    /\ saved' = FALSE
    /\ profile_pc' = "start"
    /\ UNCHANGED <<vector_db, otherThanProfile>>

SnapshotsNext == CreateAndSave \/ CreateSaveFails \/ NextCreation

SpecSnapshots == SnapshotsInit /\ [][SnapshotsNext]_vars

----------------------------------------------------------------------------
(* Specification SpecFetch: one call of _fetch_page. A step is one pass of *)
(* the loop: the GET request and what follows it.                          *)

FetchInit ==
    /\ FetchStart /\ NormIdle /\ QueryIdle /\ SearchIdle /\ LoadIdle /\ ScoreIdle
    /\ PipeIdle /\ ScrapeIdle /\ ProfileIdle /\ LlmIdle /\ JsonIdle /\ KeywordsIdle

GetEvent(k, outcome) == [ev |-> "get", attempt |-> k, outcome |-> outcome]

SleepEvent(seconds) == [ev |-> "sleep", seconds |-> seconds]

InFetchLoop == fetch_pc = "loop" /\ fetch_attempt <= fetch_retries

\* session.get answers with a status that is not 429 or 503: the response
\* is returned
FetchReturnsResponse ==
    /\ InFetchLoop
    /\ LET outcome == fetch_outcomes[fetch_attempt]
       IN  /\ "status" \in DOMAIN outcome
           /\ ~Retryable(outcome)
           /\ fetch_log' = Append(fetch_log, GetEvent(fetch_attempt, outcome))
           /\ fetch_result' = <<<<outcome.status>>>>
    /\ fetch_pc' = "returned"
    /\ UNCHANGED <<fetch_outcomes, fetch_retries, fetch_backoff, fetch_attempt,
                   otherThanFetch>>

\* session.get answers 429 or 503, or raises a RequestException: the call
\* sleeps and goes on with the next attempt
FetchBacksOff ==
    /\ InFetchLoop
    /\ LET outcome == fetch_outcomes[fetch_attempt]
       IN  /\ Retryable(outcome)
           /\ fetch_log' = fetch_log \o
                 <<GetEvent(fetch_attempt, outcome),
                   SleepEvent(BackoffDelay(fetch_backoff, fetch_attempt))>>
    /\ fetch_attempt' = fetch_attempt + 1
    /\ UNCHANGED <<fetch_outcomes, fetch_retries, fetch_backoff, fetch_result, fetch_pc,
                   otherThanFetch>>

\* session.get raises an exception that is not a RequestException, which
\* leaves _fetch_page
FetchRaises ==
    /\ InFetchLoop
    /\ LET outcome == fetch_outcomes[fetch_attempt]
       IN  /\ "raises" \in DOMAIN outcome
           /\ ~Retryable(outcome)
           /\ fetch_log' = Append(fetch_log, GetEvent(fetch_attempt, outcome))
    /\ fetch_pc' = "raised"
    /\ UNCHANGED <<fetch_outcomes, fetch_retries, fetch_backoff, fetch_attempt,
                   fetch_result, otherThanFetch>>

\* The loop has used up its attempts: None is returned
FetchGivesUp ==
    /\ fetch_pc = "loop"
    /\ fetch_attempt > fetch_retries
    /\ fetch_result' = <<<<>>>>
    /\ fetch_pc' = "returned"
    /\ UNCHANGED <<fetch_outcomes, fetch_retries, fetch_backoff, fetch_attempt, fetch_log,
                   otherThanFetch>>

FetchNext == FetchReturnsResponse \/ FetchBacksOff \/ FetchRaises \/ FetchGivesUp

SpecFetch == FetchInit /\ [][FetchNext]_vars

----------------------------------------------------------------------------
(* Specification SpecLlm: one call of call_llm. A step is one pass of the  *)
(* retry loop: the API call and what follows it.                           *)

LlmInit ==
    /\ LlmStart /\ NormIdle /\ QueryIdle /\ SearchIdle /\ LoadIdle /\ ScoreIdle
    /\ PipeIdle /\ ScrapeIdle /\ ProfileIdle /\ FetchIdle /\ JsonIdle /\ KeywordsIdle

ApiCall(k, outcome) == [ev |-> "call", attempt |-> k, outcome |-> outcome]

InLlmLoop == llm_pc = "loop" /\ llm_attempt <= max_retries

\* The API call returns: the loop is left, the response is validated and
\* its text is returned, or a ValueError is raised
LlmResponds ==
    /\ InLlmLoop
    /\ \E outcome \in {o \in ApiOutcomes : "kind" \in DOMAIN o} :
          /\ llm_log' = Append(llm_log, ApiCall(llm_attempt, outcome))
          /\ IF ResponseError(outcome) = ""
             THEN /\ llm_result' = <<outcome.text>>
                  /\ llm_pc' = "returned"
                  /\ UNCHANGED llm_error
             ELSE /\ llm_error' = Exception("ValueError", ResponseError(outcome), <<>>)
                  /\ llm_pc' = "raised"
                  /\ UNCHANGED llm_result
    /\ UNCHANGED <<max_retries, retry_delay, llm_attempt, otherThanLlm>>

\* The API call raises a retryable error and attempts are left: the call
\* sleeps and goes on with the next attempt
LlmRetries ==
    /\ InLlmLoop
    /\ llm_attempt < max_retries
    /\ \E type \in RetryableErrors :
          llm_log' = llm_log \o
             <<ApiCall(llm_attempt, ApiRaises(type)),
               SleepEvent(RetryDelay(retry_delay, llm_attempt))>>
    /\ llm_attempt' = llm_attempt + 1
    /\ UNCHANGED <<max_retries, retry_delay, llm_result, llm_error, llm_pc, otherThanLlm>>

\* The API call of the last attempt raises a retryable error, which is
\* raised again
LlmGivesUp ==
    /\ InLlmLoop
    /\ llm_attempt = max_retries
    /\ \E type \in RetryableErrors :
          /\ llm_log' = Append(llm_log, ApiCall(llm_attempt, ApiRaises(type)))
          /\ llm_error' = Exception(type, "api error", <<>>)
    /\ llm_pc' = "raised"
    /\ UNCHANGED <<max_retries, retry_delay, llm_attempt, llm_result, otherThanLlm>>

\* The API call raises another error, which is raised again at once
LlmFails ==
    /\ InLlmLoop
    /\ \E outcome \in {o \in ApiOutcomes : "raises" \in DOMAIN o} :
          /\ outcome.raises \notin RetryableErrors
          /\ llm_log' = Append(llm_log, ApiCall(llm_attempt, outcome))
          /\ llm_error' = Exception(outcome.raises, "api error", <<>>)
    /\ llm_pc' = "raised"
    /\ UNCHANGED <<max_retries, retry_delay, llm_attempt, llm_result, otherThanLlm>>

LlmNext == LlmResponds \/ LlmRetries \/ LlmGivesUp \/ LlmFails

SpecLlm == LlmInit /\ [][LlmNext]_vars

----------------------------------------------------------------------------
(* Specification SpecJson: one call of extract_json.                       *)

JsonInit ==
    /\ JsonStart /\ NormIdle /\ QueryIdle /\ SearchIdle /\ LoadIdle /\ ScoreIdle
    /\ PipeIdle /\ ScrapeIdle /\ ProfileIdle /\ FetchIdle /\ LlmIdle /\ KeywordsIdle

ExtractJson ==
    /\ json_pc = "start"
    /\ extracted' = <<extract_json(llm_text)>>
    /\ json_pc' = "done"
    /\ UNCHANGED <<llm_text, otherThanJson>>

JsonNext == ExtractJson

SpecJson == JsonInit /\ [][JsonNext]_vars

----------------------------------------------------------------------------
(* Specification SpecKeywords: one call of create_keywords. A step is one  *)
(* pass of the retry loop: the call of call_llm and what follows it.       *)

KeywordsInit ==
    /\ KeywordsStart /\ NormIdle /\ QueryIdle /\ SearchIdle /\ LoadIdle /\ ScoreIdle
    /\ PipeIdle /\ ScrapeIdle /\ ProfileIdle /\ FetchIdle /\ LlmIdle /\ JsonIdle

InKeywordsLoop == kw_pc = "loop" /\ kw_attempt <= kw_max_retries

\* The response holds an object with keywords: its values are returned
KeywordsReturned ==
    /\ InKeywordsLoop
    /\ \E t \in LlmResponses :
          /\ KeywordsOf(t).error = ""
          /\ kw_log' = Append(kw_log, [text |-> t])
          /\ kw_result' = <<KeywordsOf(t).keywords>>
    /\ kw_pc' = "returned"
    /\ UNCHANGED <<kw_max_retries, kw_attempt, kw_error, otherThanKeywords>>

\* The response holds no keywords, or call_llm raises an error that is no
\* ValueError, and attempts are left: the loop goes on
KeywordsRetry ==
    /\ InKeywordsLoop
    /\ kw_attempt < kw_max_retries
    /\ \E outcome \in CallOutcomes :
          /\ IF "text" \in DOMAIN outcome THEN KeywordsOf(outcome.text).error # ""
             ELSE outcome.raises # "ValueError"
          /\ kw_log' = Append(kw_log, outcome)
    /\ kw_attempt' = kw_attempt + 1
    /\ UNCHANGED <<kw_max_retries, kw_result, kw_error, kw_pc, otherThanKeywords>>

\* The response of the last attempt holds no keywords: ValueError
KeywordsInvalid ==
    /\ InKeywordsLoop
    /\ kw_attempt = kw_max_retries
    /\ \E t \in LlmResponses :
          /\ KeywordsOf(t).error # ""
          /\ kw_log' = Append(kw_log, [text |-> t])
          /\ kw_error' = Exception("ValueError", KeywordsOf(t).error, <<>>)
    /\ kw_pc' = "raised"
    /\ UNCHANGED <<kw_max_retries, kw_attempt, kw_result, otherThanKeywords>>

\* call_llm raises: a ValueError is raised again at once, another error
\* on the last attempt
KeywordsCallRaises ==
    /\ InKeywordsLoop
    /\ \E outcome \in {o \in CallOutcomes : "raises" \in DOMAIN o} :
          /\ outcome.raises = "ValueError" \/ kw_attempt = kw_max_retries
          /\ kw_log' = Append(kw_log, outcome)
          /\ kw_error' = Exception(outcome.raises, "call_llm failed", <<>>)
    /\ kw_pc' = "raised"
    /\ UNCHANGED <<kw_max_retries, kw_attempt, kw_result, otherThanKeywords>>

\* The loop ends without a pass that returned or raised
KeywordsLoopEnds ==
    /\ kw_pc = "loop"
    /\ kw_attempt > kw_max_retries
    /\ kw_error' =
          Exception("ValueError", "Failed to create keywords after all retry attempts", <<>>)
    /\ kw_pc' = "raised"
    /\ UNCHANGED <<kw_max_retries, kw_attempt, kw_log, kw_result, otherThanKeywords>>

KeywordsNext ==
    \/ KeywordsReturned \/ KeywordsRetry \/ KeywordsInvalid \/ KeywordsCallRaises
    \/ KeywordsLoopEnds

SpecKeywords == KeywordsInit /\ [][KeywordsNext]_vars

----------------------------------------------------------------------------
(* Claims about the collector                                              *)

\* The url of a record, "" when it has none
UrlOf(job) == IF "url" \in DOMAIN job THEN job.url ELSE ""

\* The first position of all_jobs whose record carries the url u
FirstWithUrl(u) == CHOOSE i \in 1..Len(all_jobs) :
                      /\ UrlOf(all_jobs[i]) = u
                      /\ \A j \in 1..(i - 1) : UrlOf(all_jobs[j]) # u

\* C1: the list returned by search_jobs holds, for each distinct non-empty
\* url of the collected records, exactly one record, which is the first
\* collected record with this url; it holds no record with an empty or
\* missing url; and it keeps the order of the collected list.
C1_DedupFirstOccurrence ==
    search_pc = "done" =>
        /\ \A i \in 1..Len(deduped) : UrlOf(deduped[i]) # ""
        /\ \A i, j \in 1..Len(deduped) : i # j => UrlOf(deduped[i]) # UrlOf(deduped[j])
        /\ {UrlOf(deduped[i]) : i \in 1..Len(deduped)}
              = {UrlOf(all_jobs[i]) : i \in 1..Len(all_jobs)} \ {""}
        /\ \A i \in 1..Len(deduped) : deduped[i] = all_jobs[FirstWithUrl(UrlOf(deduped[i]))]
        /\ \A i, j \in 1..Len(deduped) :
              i < j => FirstWithUrl(UrlOf(deduped[i])) < FirstWithUrl(UrlOf(deduped[j]))

\* Three records were collected: one without url, then two with the same url
\* that differ in title; only the first of the two is returned.
C1_Witness ==
    /\ search_pc = "done"
    /\ Len(all_jobs) = 3
    /\ UrlOf(all_jobs[1]) = ""
    /\ UrlOf(all_jobs[2]) = "u1" /\ UrlOf(all_jobs[3]) = "u1"
    /\ all_jobs[2].title # all_jobs[3].title
    /\ deduped = <<all_jobs[2]>>

----------------------------------------------------------------------------
(* Claims about the job identity                                           *)

\* A field of a stored record, "" when the record lacks it
FieldOf(job, key) == IF key \in DOMAIN job THEN job[key] ELSE ""

\* The url is missing, empty or whitespace
BlankUrl(job) == Strip(FieldOf(job, "url")) = ""

\* Title, query and snippet are all empty as stored
AllEmpty(job) ==
    /\ FieldOf(job, "title") = ""
    /\ FieldOf(job, "query_used") = ""
    /\ FieldOf(job, "description_snippet") = ""

\* Title, query_used and description_snippet[:80] are identical as stored
SameStoredFields(a, b) ==
    /\ FieldOf(a, "title") = FieldOf(b, "title")
    /\ FieldOf(a, "query_used") = FieldOf(b, "query_used")
    /\ Prefix(FieldOf(a, "description_snippet"), 80)
          = Prefix(FieldOf(b, "description_snippet"), 80)

\* The fallback identity: the trimmed, lowercased title and query and the
\* first 80 characters of the trimmed, lowercased snippet, joined with "|"
FallbackKey(job) ==
    Lower(Strip(FieldOf(job, "title"))) \o "|"
        \o Lower(Strip(FieldOf(job, "query_used"))) \o "|"
        \o Prefix(Lower(Strip(FieldOf(job, "description_snippet"))), 80)

\* Title, query and snippet are all empty once trimmed
AllEmptyTrimmed(job) == FallbackKey(job) = "||"

\* The records that were read from the directory
Loaded == LoadedJobs(raw_dir)

\* C9 as stated: of two stored records with blank url that have some
\* non-empty field, the second is dropped as a duplicate exactly when title,
\* query_used and description_snippet[:80] are identical.
C9_Original ==
    (/\ load_pc = "done"
     /\ Len(Loaded) = 2
     /\ BlankUrl(Loaded[1]) /\ BlankUrl(Loaded[2])
     /\ ~AllEmpty(Loaded[1]) /\ ~AllEmpty(Loaded[2]))
    => /\ SameStoredFields(Loaded[1], Loaded[2]) => unique_jobs = <<Loaded[1]>>
       /\ ~SameStoredFields(Loaded[1], Loaded[2]) => unique_jobs = <<Loaded[1], Loaded[2]>>

\* C9 (amended): a record with blank url is kept exactly when its three
\* fields are not all empty once trimmed and no earlier kept record has the
\* same identity; two records with blank url are duplicates exactly when
\* their fallback identities are equal; a record with blank url and three
\* empty fields is excluded.
C9_IdentityDedup ==
    load_pc = "done" =>
        /\ \A i \in 1..Len(Loaded) :
              (BlankUrl(Loaded[i]) /\ AllEmptyTrimmed(Loaded[i]))
                 => Loaded[i] \notin Range(unique_jobs)
        /\ (/\ Len(Loaded) = 2
            /\ BlankUrl(Loaded[1]) /\ BlankUrl(Loaded[2])
            /\ ~AllEmptyTrimmed(Loaded[1]) /\ ~AllEmptyTrimmed(Loaded[2]))
           => IF FallbackKey(Loaded[1]) = FallbackKey(Loaded[2])
              THEN unique_jobs = <<Loaded[1]>>
              ELSE unique_jobs = <<Loaded[1], Loaded[2]>>

\* Two records with blank url whose snippets agree on the first 80
\* characters as stored, but not once trimmed, were loaded: both are kept.
C9_Witness ==
    /\ load_pc = "done"
    /\ Len(Loaded) = 2
    /\ BlankUrl(Loaded[1]) /\ BlankUrl(Loaded[2])
    /\ Loaded[1] # Loaded[2]
    /\ SameStoredFields(Loaded[1], Loaded[2])
    /\ unique_jobs = <<Loaded[1], Loaded[2]>>

----------------------------------------------------------------------------
(* Claims about the scorer                                                 *)

\* The dict of the i-th returned job
Scored(i) == heap[scored_jobs[i]]

\* The position in raw_jobs of the job that the i-th returned job is the
\* scored copy of: the copies are allocated in the order of raw_jobs
SourceOf(i) == scored_jobs[i] - Len(heap_at_call)

\* The dict that the i-th returned job was made from, as it was at the call
Source(i) == heap_at_call[raw_jobs[SourceOf(i)]]

\* The candidate technologies
Techs == flattened_tech_stack

\* The lowercased concatenation of title, description_snippet and
\* full_description, with nothing between them
Concatenation(job) ==
    Lower(FieldOf(job, "title") \o FieldOf(job, "description_snippet")
            \o FieldOf(job, "full_description"))

\* The three fields joined with single spaces, lowercased
JoinedWithSpaces(job) ==
    Lower(FieldOf(job, "title") \o " " \o FieldOf(job, "description_snippet") \o " "
            \o FieldOf(job, "full_description"))

\* C2: every score is an integer from 0 to 100, and it is 0 when the
\* flattened candidate technology list is empty.
C2_ScoreBounds ==
    score_pc = "done" =>
        \A i \in 1..Len(scored_jobs) :
            /\ Scored(i).score \in 0..100
            /\ Techs = <<>> => Scored(i).score = 0

\* Jobs were scored against an input whose only technology has experience
\* level 0: the flattened list is empty and the scores are 0.
C2_Witness ==
    /\ score_pc = "done"
    /\ tech_stack # <<>>
    /\ Techs = <<>>
    /\ Len(scored_jobs) = 2
    /\ Scored(1).score = 0 /\ Scored(2).score = 0

\* matched_skills and missing_skills partition the technology list: each
\* technology is in exactly one of the two lists, exactly once
Partition(i) ==
    /\ Len(Scored(i).matched_skills) + Len(Scored(i).missing_skills) = Len(Techs)
    /\ \A t \in Range(Techs) :
          Cardinality({k \in DOMAIN Scored(i).matched_skills : Scored(i).matched_skills[k] = t})
            + Cardinality({k \in DOMAIN Scored(i).missing_skills :
                              Scored(i).missing_skills[k] = t}) = 1
    /\ Range(Scored(i).matched_skills) \cup Range(Scored(i).missing_skills) \subseteq Range(Techs)

C4_SortedStable ==
    score_pc = "done" =>
        \A i, j \in 1..Len(scored_jobs) :
            i < j => /\ Scored(i).score >= Scored(j).score
                     /\ Scored(i).score = Scored(j).score => SourceOf(i) < SourceOf(j)

\* Three jobs were scored: the last one has the highest score and was
\* moved to the front, the other two tie and keep their order.
C4_Witness ==
    /\ score_pc = "done"
    /\ Len(scored_jobs) = 3
    /\ SourceOf(1) = 3 /\ SourceOf(2) = 1 /\ SourceOf(3) = 2
    /\ Scored(1).score > Scored(2).score
    /\ Scored(2).score = Scored(3).score
    /\ Source(2) # Source(3)

\* C5: the score is floor(100 * m / max(1, n)) for m matched of n candidate
\* technologies.
C5_ScoreFormula ==
    score_pc = "done" =>
        \A i \in 1..Len(scored_jobs) :
            Scored(i).score
               = (100 * Len(Scored(i).matched_skills)) \div Max(1, Len(Techs))

\* C6: the result has one enriched record per input job, each a new dict
\* that is the input dict plus score, matched_skills and missing_skills, and
\* every dict that existed at the call is unchanged.
C6_CopyAndEnrich ==
    score_pc = "done" =>
        /\ Len(scored_jobs) = Len(raw_jobs)
        /\ {SourceOf(i) : i \in 1..Len(scored_jobs)} = 1..Len(raw_jobs)
        /\ \A a \in 1..Len(heap_at_call) :
              /\ heap[a] = heap_at_call[a]
              /\ DOMAIN heap[a] \cap {"score", "matched_skills", "missing_skills"} = {}
        /\ \A i \in 1..Len(scored_jobs) :
              /\ scored_jobs[i] \notin Range(raw_jobs)
              /\ DOMAIN Scored(i)
                    = DOMAIN Source(i) \cup {"score", "matched_skills", "missing_skills"}
              /\ \A k \in DOMAIN Source(i) : Scored(i)[k] = Source(i)[k]

\* Two jobs were scored against two technologies and reordered; the result
\* carries scores and the two input dicts are as they were.
C6_Witness ==
    /\ score_pc = "done"
    /\ Len(raw_jobs) = 2
    /\ Len(Techs) = 2
    /\ SourceOf(1) = 2
    /\ Scored(1).score = 100
    /\ heap[raw_jobs[2]] = heap_at_call[raw_jobs[2]]
    /\ "score" \notin DOMAIN heap[raw_jobs[2]]

----------------------------------------------------------------------------
(* Claims about normalize_list                                             *)

\* The first position of skill_items whose normalized token is v
FirstPos(v) == CHOOSE i \in 1..Len(skill_items) :
                  /\ _normalize_token(skill_items[i]) = v
                  /\ \A j \in 1..(i - 1) : _normalize_token(skill_items[j]) # v

\* C8: normalize_list is idempotent, and its output has no empty element,
\* no two equal elements, holds exactly the non-empty normalized tokens of
\* the input, and lists them in the order of their first occurrences.
C8_NormalizeIdempotent ==
    /\ norm_pc = "twice" => renormalized = normalized
    /\ norm_pc \in {"once", "twice"} =>
          /\ \A i \in 1..Len(normalized) : normalized[i] # ""
          /\ \A i, j \in 1..Len(normalized) : i # j => normalized[i] # normalized[j]
          /\ Range(normalized) = {_normalize_token(t) : t \in Range(skill_items)} \ {""}
          /\ \A i, j \in 1..Len(normalized) :
                i < j => FirstPos(normalized[i]) < FirstPos(normalized[j])

\* A list with a padded alias, a duplicate under aliasing and a mixed-case
\* token has been normalized twice.
C8_Witness ==
    /\ norm_pc = "twice"
    /\ skill_items = <<" PY ", "Python", "gO">>
    /\ normalized = <<"Python", "gO">>

----------------------------------------------------------------------------
(* Claims about build_queries                                              *)

\* The core languages and the agentic tools of the profile, lowercased
LoweredField(key) ==
    {Lower(t) : t \in Range(Get(skill_profile, key, <<>>))}

\* The queries that the profile calls for
ExpectedQueries ==
    {l \o " developer" : l \in LoweredField("core_languages")}
    \cup {"junior " \o l \o " developer" : l \in LoweredField("core_languages")}
    \cup {l \o " engineer" : l \in LoweredField("core_languages")}
    \cup LoweredField("agentic_ai_experience")
    \cup {t \o " developer" : t \in LoweredField("agentic_ai_experience")}
    \cup (IF Get(skill_profile, "ai_ml_experience", <<>>) # <<>>
          THEN {"ai engineer", "junior ai engineer", "machine learning engineer",
                "ml engineer"}
          ELSE {})
    \cup {"junior software developer", "junior full stack developer",
          "entry level developer", "llm engineer", "agentic ai"}

----------------------------------------------------------------------------
(* Claims about the pipeline                                               *)

\* The steps that were called and have raised
FailedSteps == Range(started) \ (Range(completed) \cup
                  (IF pipe_pc = "running" THEN {step_number} ELSE {}))

\* C10: the steps are called in the order 1, 2, ..., 6, each at most once; a
\* step is called only when every earlier step has returned; and when a
\* step has raised, no later step has been called.
C10_StagesInOrder ==
    /\ \A i \in 1..Len(started) : started[i] = i
    /\ Len(started) <= TotalSteps
    /\ \A i \in 1..Len(completed) : completed[i] = i
    /\ \A k \in Range(started) : \A j \in 1..(k - 1) : j \in Range(completed)
    /\ \A f \in FailedSteps : \A k \in Range(started) : k <= f
    /\ pipe_pc = "returned" => completed = <<1, 2, 3, 4, 5, 6>>

\* The scoring step raised after the first three steps had returned, and
\* steps 5 and 6 were not called.
C10_Witness ==
    /\ pipe_pc = "raised"
    /\ started = <<1, 2, 3, 4>>
    /\ completed = <<1, 2, 3>>
    /\ pipe_error.type = "RuntimeError"

\* The step whose function has raised
FailedStep == started[Len(started)]

\* A step function has raised and its error has left main
StepHasRaised == pipe_pc = "raised" /\ started # <<>>

\* C11: when a step has raised, the error that leaves main is a RuntimeError
\* whose message starts with the number and the name of that step, names no
\* other step, and whose cause is the error that the step raised.
C11_ErrorNamesFailedStep ==
    StepHasRaised =>
        LET label == StepLabel(FailedStep) \o " failed: "
        IN  /\ pipe_error.type = "RuntimeError"
            /\ Len(pipe_error.text) >= Len(label)
            /\ SubSeq(pipe_error.text, 1, Len(label)) = label
            /\ \A j \in (1..TotalSteps) \ {FailedStep} :
                  /\ ~Contains(pipe_error.text, StepName(j))
                  /\ ~Contains(pipe_error.text, "Step " \o CharAt("123456", j) \o "/")
            /\ pipe_error.cause = <<caught>>
            /\ caught \in StepErrors(FailedStep, raw_count)

\* The analysis step has raised a ValueError, which left main as the cause
\* of the RuntimeError of step 5.
C11_Witness ==
    /\ StepHasRaised
    /\ FailedStep = 5
    /\ caught.type = "ValueError"
    /\ pipe_error.text = " Step 5/6: Analyzing jobs failed: No scored jobs found for analysis."
    /\ pipe_error.cause = <<caught>>

----------------------------------------------------------------------------
(* Claims about the persistence points                                     *)

\* C12: a failure to write an output file never raises to the caller. For
\* the raw listings: no error leaves search_jobs, whose only raise in the
\* model is the failed write of a batch in _save_raw_jobs.
C12_WriteFailureNeverRaises == search_pc # "raised"

----------------------------------------------------------------------------
(* Claims about the scraper                                                *)

\* The search pages that were requested
RequestedPages == {trace[i].page : i \in {k \in 1..Len(trace) : trace[k].ev = "search"}}

\* The search page p ended in a status other than 200 or in used-up retries
FetchFailed(p) == SitePage(site, p).kind \in {"not_found", "not_modified", "exhausted"}

RECURSIVE TitlesBefore(_)
\* The titles of the cards of the search pages before page p, in order
TitlesBefore(p) ==
    IF p <= 1 THEN <<>>
    ELSE TitlesBefore(p - 1)
            \o [i \in 1..Len(SitePage(site, p - 1).cards) |-> SitePage(site, p - 1).cards[i].title]

\* The titles of the returned records
ResultTitles == [i \in 1..Len(results) |-> results[i].title]

\* The scrape has returned, page p is the last page it requested, and its
\* records are those of the cards of the pages before p
StoppedAt(p) ==
    /\ scrape_pc = "returned"
    /\ \A q \in RequestedPages : q <= p
    /\ trace[Len(trace)] \in {Event("search", p, "")}
    /\ ResultTitles = TitlesBefore(p)

\* C13: when the fetch of a search page ends in a non-200 status or in
\* used-up retries, the scrape requests no further page, raises nothing and
\* returns the records of the earlier pages.
C13_FailedPageStops == \A p \in RequestedPages : FetchFailed(p) => StoppedAt(p)

\* The retries of page 2 were used up after a full page 1: three requests
\* for page 2, and the twenty records of page 1 returned.
C13_Witness ==
    /\ Len(site) >= 2 /\ site[2].kind = "exhausted"
    /\ num_pages = 3
    /\ scrape_pc = "returned"
    /\ Len(results) = FullPageSize
    /\ Cardinality({k \in 1..Len(trace) : trace[k] = Event("search", 2, "")}) = 3

\* C14: when a search page has no cards, the scrape requests no page with
\* a higher number, whatever num_pages is, and returns the records of the
\* earlier pages.
C14_EmptyPageStops ==
    \A p \in RequestedPages : SitePage(site, p).kind = "empty" => StoppedAt(p)

\* Page 2 of 3 had no cards after a full page 1: page 3 was not requested
\* and the twenty records of page 1 were returned.
C14_Witness ==
    /\ Len(site) >= 2 /\ site[2].kind = "empty"
    /\ num_pages = 3
    /\ 2 \in RequestedPages /\ 3 \notin RequestedPages
    /\ scrape_pc = "returned"
    /\ Len(results) = FullPageSize

\* Deep mode is off: the bool False, or the "No" of the form
DeepModeOff == deep_mode \in {PyBool(FALSE), PyStr("No")}

\* The requests for detail pages
DetailRequests == {k \in 1..Len(trace) : trace[k].ev = "detail"}

\* The record has the field full_description and it is the empty string
EmptyDescription(job) ==
    "full_description" \in DOMAIN job /\ job.full_description = ""

\* C15: with deep mode off, a scrape requests no detail page and every
\* record it returns has the empty string as full_description.
C15_LightModeNoDetail ==
    DeepModeOff =>
        /\ DetailRequests = {}
        /\ \A i \in 1..Len(results) : EmptyDescription(results[i])

\* The cards of the server
SiteCards == UNION {Range(site[p].cards) : p \in 1..Len(site)}

\* The card that the i-th record was parsed from
CardOf(i) == CHOOSE card \in SiteCards : card.title = results[i].title

\* The detail page of the card cannot be fetched or has no description
DetailFails(card) == card.kind \in {"gone", "busy", "unreachable", "bare", "broken"}

\* C16: in deep mode, a card whose detail fetch fails is returned with the
\* empty string as full_description, and the failure does not end the
\* scrape: an error leaves it only from the fetch of a search page.
C16_DetailFailureKeepsRecord ==
    deep_mode = PyBool(TRUE) =>
        /\ \A i \in 1..Len(results) :
              DetailFails(CardOf(i)) => EmptyDescription(results[i])
        /\ scrape_pc = "raised" => trace[Len(trace)].ev = "search"

\* per_page_limit is an int L >= 1
HasLimit == per_page_limit # <<>> /\ per_page_limit[1] >= 1

\* C17: with per_page_limit L >= 1 the result never holds more than L
\* records, and once it holds L records the scrape has returned and the
\* appending of the L-th record is the last thing it did: no search page
\* and no detail page is requested after it.
C17_LimitStopsScrape ==
    HasLimit =>
        /\ Len(results) <= per_page_limit[1]
        /\ Len(results) = per_page_limit[1] =>
              /\ scrape_pc = "returned"
              /\ trace[Len(trace)].ev = "append"

\* With a limit of 21 and three full pages asked for, the scrape returned
\* at the first card of page 2, with cards and a page left.
C17_Witness ==
    /\ per_page_limit = <<21>>
    /\ num_pages = 3 /\ Len(site) = 3
    /\ scrape_pc = "returned"
    /\ Len(results) = 21
    /\ page = 2 /\ card_i = 1 /\ Len(job_cards) = FullPageSize
    /\ 3 \notin RequestedPages

----------------------------------------------------------------------------
(* Claims about the dispatch of search_jobs                                *)

\* The query and the board of the k-th pair of queries x boards, queries
\* outermost
PairQuery(k) == keywords[((k - 1) \div Len(job_boards)) + 1]

PairBoard(k) == job_boards[((k - 1) % Len(job_boards)) + 1]

\* The board name is one of the two known names, in any case
KnownBoard(name) == Lower(name) \in {"duunitori", "jobly"}

\* The scraper of a known board
ScraperOf(name) == IF Lower(name) = "duunitori" THEN "scrape_duunitori" ELSE "scrape_jobly"

RECURSIVE ExpectedCalls(_)
\* The invocations that the first n pairs call for
ExpectedCalls(n) ==
    IF n = 0 THEN <<>>
    ELSE IF KnownBoard(PairBoard(n))
    THEN Append(ExpectedCalls(n - 1), <<ScraperOf(PairBoard(n)), PairQuery(n)>>)
    ELSE ExpectedCalls(n - 1)

RECURSIVE Concatenation18(_)
\* The first n batches, concatenated
Concatenation18(n) == IF n = 0 THEN <<>> ELSE Concatenation18(n - 1) \o batches[n]

\* C18: after n passes the scrapers were invoked once for each of the first
\* n pairs whose board is known, in order, and for no other pair; the batch
\* of an unknown board is empty and its pass does not raise; the combined
\* list is the concatenation of the batches; and a search that returns has
\* passed over every pair.
C18_DispatchPerPair ==
    /\ scraper_calls = ExpectedCalls(Len(batches))
    /\ \A k \in 1..Len(batches) : ~KnownBoard(PairBoard(k)) => batches[k] = <<>>
    /\ all_jobs = Concatenation18(Len(batches))
    /\ search_pc = "raised" => KnownBoard(PairBoard(Len(batches)))
    /\ search_pc = "done" => Len(batches) = Len(keywords) * Len(job_boards)

\* Two queries were searched on "jobly" and on the unknown "Monster": two
\* invocations of the Jobly scraper, four batches, two of them not empty.
C18_Witness ==
    /\ search_pc = "done"
    /\ keywords = <<"ai engineer", "ai/engineer">>
    /\ job_boards = <<"jobly", "Monster">>
    /\ scraper_calls = <<<<"scrape_jobly", "ai engineer">>, <<"scrape_jobly", "ai/engineer">>>>
    /\ Len(batches) = 4
    /\ batches[1] # <<>> /\ batches[3] # <<>>
    /\ Len(all_jobs) = Len(batches[1]) + Len(batches[3])

----------------------------------------------------------------------------
(* Claims about the profile snapshots                                      *)

\* The latest snapshot of the directory at the call, by file name
LatestAtCall == db_at_call.files[LatestName(DOMAIN db_at_call.files)]

HasSnapshot == db_at_call.exists /\ DOMAIN db_at_call.files # {}

\* The elements of new_list that existing_list does not hold, in order
NotAlreadyPresent(new_list, existing_list) ==
    LET Fresh(x) == x \notin Range(existing_list)
    IN  SelectSeq(new_list, Fresh)

\* The snapshot of this run holds the profile and the others are as before
PersistedAs(profile) ==
    /\ vector_db.exists = db_at_call.exists
    /\ DOMAIN vector_db.files = DOMAIN db_at_call.files \cup {SnapshotName(Timestamp)}
    /\ vector_db.files[SnapshotName(Timestamp)] = [kind |-> "profile", data |-> profile]
    /\ \A n \in DOMAIN db_at_call.files : vector_db.files[n] = db_at_call.files[n]

\* C19: merging a new profile N with the existing persisted profile E gives
\* M where each of the eight list fields is E's list followed by the
\* elements of N's list that E's list does not hold, each of the four
\* experience levels is the larger of E's and N's, and the name is N's when
\* it is non-empty and E's otherwise; M is what the snapshot of the run
\* holds once it is written.
C19_MergeUnionMaxName ==
    (profile_pc = "done" /\ HasSnapshot /\ LatestAtCall.kind = "profile") =>
        LET E == LatestAtCall.data
            N == skill_profile_new
            M == merged_profile[1]
        IN  /\ \A key \in ListFields :
                   M[key] = E[key] \o NotAlreadyPresent(N[key], E[key])
            /\ \A level \in LevelNames :
                   /\ M.experience_level[level] >= E.experience_level[level]
                   /\ M.experience_level[level] >= N.experience_level[level]
                   /\ M.experience_level[level]
                          \in {E.experience_level[level], N.experience_level[level]}
            /\ M.name = (IF N.name # "" THEN N.name ELSE E.name)
            /\ vector_db # db_at_call => PersistedAs(M)

\* A nameless new profile whose languages overlap the stored ones is merged
\* into the stored profile and the merged profile is written
C19_Witness ==
    /\ profile_pc = "done" /\ HasSnapshot /\ LatestAtCall.kind = "profile"
    /\ LatestAtCall.data.core_languages = <<"Go">>
    /\ LatestAtCall.data.name = "Ada"
    /\ LatestAtCall.data.experience_level["Python"] = 5
    /\ skill_profile_new.core_languages = <<"Python", "Go">>
    /\ skill_profile_new.soft_skills = <<"Git", "Docker">>
    /\ skill_profile_new.name = ""
    /\ skill_profile_new.experience_level["JavaScript"] = 4
    /\ merged_profile[1].core_languages = <<"Go", "Python">>
    /\ merged_profile[1].name = "Ada"
    /\ merged_profile[1].experience_level["JavaScript"] = 4
    /\ merged_profile[1].experience_level["Python"] = 5
    /\ PersistedAs(merged_profile[1])

----------------------------------------------------------------------------
(* Claims about the API endpoint                                           *)

\* The profiler has raised its ValueError for a response without JSON
ProfilingFailedOnJson ==
    /\ StepHasRaised
    /\ FailedStep = 1
    /\ caught = Exception("ValueError", "LLM did not return parseable JSON.", <<>>)

\* C21: when the profiling step fails with the profiler's ValueError for an
\* LLM response without parseable JSON, the request is answered with HTTP
\* 400 and a detail that starts with "Invalid input data or LLM response".
C21_ProfilerValueErrorIs400 ==
    (ProfilingFailedOnJson /\ http_response # <<>>) =>
        /\ http_response[1].status = 400
        /\ Contains(http_response[1].detail, "Invalid input data or LLM response")

----------------------------------------------------------------------------
(* Claims about the page fetcher                                           *)

\* The positions of the GET requests in the log of the call
GetPositions == {i \in 1..Len(fetch_log) : fetch_log[i].ev = "get"}

ForSearchPage == fetch_pc # "idle" /\ fetch_retries = SearchRetries

\* C22: for a search page, _fetch_page issues at most 3 GET requests; a GET
\* answered with 200, or with any status other than 429 and 503, is the last
\* one and its response is returned; every further GET comes directly after
\* a wait of backoff * k seconds that follows the k-th GET, which was
\* answered with 429 or 503 or raised a transport exception; and no
\* response is returned exactly when 3 GET requests have been used up.
C22_FetchPageRetries ==
    ForSearchPage =>
        /\ Cardinality(GetPositions) <= 3
        /\ \A i \in GetPositions :
              /\ fetch_log[i].attempt = Cardinality({j \in GetPositions : j <= i})
              /\ ("status" \in DOMAIN fetch_log[i].outcome
                     /\ fetch_log[i].outcome.status \notin {429, 503}) =>
                    /\ i = Len(fetch_log)
                    /\ fetch_pc = "returned"
                    /\ fetch_result = <<<<fetch_log[i].outcome.status>>>>
              /\ fetch_log[i].attempt > 1 =>
                    /\ i >= 3
                    /\ fetch_log[i - 1] =
                          SleepEvent(fetch_backoff * fetch_log[i - 2].attempt)
                    /\ fetch_log[i - 2].ev = "get"
                    /\ fetch_log[i - 2].attempt = fetch_log[i].attempt - 1
                    /\ \/ fetch_log[i - 2].outcome \in {Status(429), Status(503)}
                       \/ fetch_log[i - 2].outcome = Raises("RequestException")
        /\ (fetch_pc = "returned" /\ fetch_result = <<<<>>>>) =>
              Cardinality(GetPositions) = 3
        /\ (Cardinality(GetPositions) = 3 /\ fetch_pc = "returned") =>
              \/ fetch_result = <<<<>>>>
              \/ /\ fetch_log[Len(fetch_log)].ev = "get"
                 /\ fetch_result = <<<<fetch_log[Len(fetch_log)].outcome.status>>>>

\* Three attempts were answered 429, cut off and answered 503, the waits
\* were 2, 4 and 6 seconds and no response is returned
C22_Witness ==
    /\ ForSearchPage
    /\ fetch_pc = "returned"
    /\ fetch_result = <<<<>>>>
    /\ fetch_log = <<GetEvent(1, Status(429)), SleepEvent(2),
                     GetEvent(2, Raises("RequestException")), SleepEvent(4),
                     GetEvent(3, Status(503)), SleepEvent(6)>>

----------------------------------------------------------------------------
(* Claims about the end of a scrape                                        *)

\* The scrape has ended: it has returned, or an exception has left it
ScrapeEnded == scrape_pc \in {"returned", "raised"}

\* The highest search page requested so far
LastRequested == CHOOSE p \in RequestedPages : \A q \in RequestedPages : q <= p

\* The pages of the search requests, in the order of the requests
RequestOrder ==
    LET Searches(e) == e.ev = "search"
        searches == SelectSeq(trace, Searches)
    IN  [i \in 1..Len(searches) |-> searches[i].page]

\* Pages are requested in increasing order and none is skipped
PagesInOrder ==
    /\ RequestedPages = 1..Cardinality(RequestedPages)
    /\ \A i \in 1..(Len(RequestOrder) - 1) : RequestOrder[i] <= RequestOrder[i + 1]
    /\ scrape_pc # "idle" => page <= num_pages

\* The fetch of search page p failed: a status other than 200, used-up
\* retries, or an exception
FetchFailedOrRaised(p) == FetchFailed(p) \/ SitePage(site, p).kind = "crash"

\* The result holds as many records as per_page_limit allows
LimitHit == HasLimit /\ Len(results) >= per_page_limit[1]

\* The statement of C23 as made: a scrape ends before page num_pages only
\* when a search-page fetch failed or was not answered with 200, when a
\* page had no cards, or when per_page_limit was reached.
C23_Original ==
    /\ PagesInOrder
    /\ (ScrapeEnded /\ RequestedPages # {} /\ LastRequested < num_pages) =>
          \/ FetchFailedOrRaised(LastRequested)
          \/ SitePage(site, LastRequested).cards = <<>>
          \/ LimitHit

\* C23: pages are requested in increasing order 1, 2, ... with none
\* skipped, and a scrape ends before page num_pages only when a search-page
\* fetch failed or was not answered with 200, when a page had no cards,
\* when a page had fewer than twenty cards, or when per_page_limit was
\* reached.
C23_EarlyEndReasons ==
    /\ PagesInOrder
    /\ (ScrapeEnded /\ RequestedPages # {} /\ LastRequested < num_pages) =>
          \/ FetchFailedOrRaised(LastRequested)
          \/ SitePage(site, LastRequested).cards = <<>>
          \/ Len(SitePage(site, LastRequested).cards) < FullPageSize
          \/ LimitHit

\* Page 2 of 3 had two cards after a full page 1 and no limit was set:
\* the scrape returned its 22 records without requesting page 3
C23_Witness ==
    /\ num_pages = 3 /\ Len(site) = 2
    /\ site[1].kind = "full" /\ site[2].kind = "short_a"
    /\ per_page_limit = <<>>
    /\ scrape_pc = "returned"
    /\ RequestOrder = <<1, 2>>
    /\ Len(results) = FullPageSize + 2

----------------------------------------------------------------------------
(* Claims about the raw files                                              *)

\* The passes of the loops whose batch _save_raw_jobs has written: those
\* with a batch that is not empty, but for a pass whose write has failed
WrittenPasses ==
    {k \in 1..Len(batches) :
        batches[k] # <<>> /\ ~(search_pc = "raised" /\ k = Len(batches))}

PassFileName(k) == RawFileName(PairBoard(k), PairQuery(k))

\* C24: every (query, board) batch of a call of search_jobs is written to a
\* file of its own: two passes for different (query, board) pairs never
\* write to the same file name, and the file of every written batch still
\* holds that batch.
C24_OwnRawFile ==
    /\ \A i, j \in WrittenPasses :
          <<PairQuery(i), PairBoard(i)>> # <<PairQuery(j), PairBoard(j)>> =>
              PassFileName(i) # PassFileName(j)
    /\ \A k \in WrittenPasses :
          /\ PassFileName(k) \in DOMAIN raw_files
          /\ raw_files[PassFileName(k)] = batches[k]

----------------------------------------------------------------------------
(* Claims about call_llm                                                   *)

\* The positions of the API calls in the log of the call
ApiCalls == {i \in 1..Len(llm_log) : llm_log[i].ev = "call"}

RaisedRetryable(event) ==
    "raises" \in DOMAIN event.outcome
        /\ event.outcome.raises
              \in {"RateLimitError", "APIConnectionError", "APITimeoutError"}

\* C25: call_llm makes at most max_retries + 1 API calls, numbered from 0;
\* every call after the first comes directly after a wait of
\* retry_delay * 2^k seconds that follows call k, which failed with a
\* rate-limit, connection or timeout error; a call that fails with another
\* error is the last one and its error is raised; and when max_retries + 1
\* calls have failed with retryable errors, the error of the last one is
\* raised.
C25_CallLlmRetries ==
    llm_pc # "idle" =>
        /\ Cardinality(ApiCalls) <= max_retries + 1
        /\ \A i \in ApiCalls :
              /\ llm_log[i].attempt = Cardinality({j \in ApiCalls : j < i})
              /\ llm_log[i].attempt > 0 =>
                    /\ i >= 3
                    /\ llm_log[i - 2].ev = "call"
                    /\ llm_log[i - 2].attempt = llm_log[i].attempt - 1
                    /\ RaisedRetryable(llm_log[i - 2])
                    /\ llm_log[i - 1] =
                          SleepEvent(retry_delay * (2 ^ llm_log[i - 2].attempt))
              /\ ("raises" \in DOMAIN llm_log[i].outcome /\ ~RaisedRetryable(llm_log[i])) =>
                    /\ i = Len(llm_log)
                    /\ llm_pc = "raised"
                    /\ llm_error.type = llm_log[i].outcome.raises
        /\ (Cardinality(ApiCalls) = max_retries + 1
               /\ \A i \in ApiCalls : RaisedRetryable(llm_log[i])) =>
              /\ llm_pc = "raised"
              /\ llm_error.type = llm_log[Len(llm_log)].outcome.raises
              /\ llm_log[Len(llm_log)].ev = "call"

\* With max_retries 3 and retry_delay 3, four calls failed with retryable
\* errors after waits of 3, 6 and 12 seconds, and the timeout of the last
\* call was raised
C25_Witness ==
    /\ max_retries = 3 /\ retry_delay = 3
    /\ llm_pc = "raised"
    /\ llm_error.type = "APITimeoutError"
    /\ llm_log = <<ApiCall(0, ApiRaises("RateLimitError")), SleepEvent(3),
                   ApiCall(1, ApiRaises("APIConnectionError")), SleepEvent(6),
                   ApiCall(2, ApiRaises("RateLimitError")), SleepEvent(12),
                   ApiCall(3, ApiRaises("APITimeoutError"))>>

----------------------------------------------------------------------------
(* Claims about extract_json                                               *)

\* The positions of the "{" of the text
OpenBraces == {i \in 1..Len(llm_text) : CharAt(llm_text, i) = "{"}

FirstOpen == CHOOSE i \in OpenBraces : \A j \in OpenBraces : i <= j

\* The number of "{" minus the number of "}" from the first "{" to position i
RunningCount(i) ==
    Cardinality({j \in FirstOpen..i : CharAt(llm_text, j) = "{"})
       - Cardinality({j \in FirstOpen..i : CharAt(llm_text, j) = "}"})

\* The positions from the first "{" on at which the count is zero
Balanced == {i \in FirstOpen..Len(llm_text) : RunningCount(i) = 0}

\* C27: when the text holds a "{" and the count of "{" minus "}" from the
\* first "{" returns to zero, extract_json returns the text from that "{"
\* to the first position at which the count is zero; when the text holds
\* no "{", it returns none.
C27_FirstBalancedSpan ==
    json_pc = "done" =>
        /\ OpenBraces = {} => extracted = <<<<>>>>
        /\ (OpenBraces # {} /\ Balanced # {}) =>
              extracted =
                 <<<<SubSeq(llm_text, FirstOpen,
                            CHOOSE i \in Balanced : \A j \in Balanced : i <= j)>>>>

\* Of a text with two objects, the first one is returned
C27_Witness ==
    /\ json_pc = "done"
    /\ llm_text = "{a}{}"
    /\ extracted = <<<<"{a}">>>>

----------------------------------------------------------------------------
(* Claims about create_keywords                                            *)

\* The values of the JSON object of a response, for the responses that
\* hold an object with keywords
ObjectValues ==
    [t \in {"{\"1\": \"ai engineer\", \"2\": \"ml engineer\"}",
            "Sure: {\"1\": \"ai engineer\"} done"} |->
        IF t = "Sure: {\"1\": \"ai engineer\"} done"
        THEN <<"ai engineer">>
        ELSE <<"ai engineer", "ml engineer">>]

\* The call of call_llm returned a response that is unparseable, not a
\* JSON object or an empty object
NoKeywords(outcome) ==
    "text" \in DOMAIN outcome
        /\ outcome.text \in {"no keywords", "Here: {not json}", "\"{\"", "{}"}

KeywordsEnded == kw_pc \in {"returned", "raised"}

\* C26: create_keywords calls call_llm at most max_retries + 1 times; what
\* it returns is the non-empty list of the values of the JSON object of the
\* last response; and when every call returned a response that is
\* unparseable, not a JSON object or an empty object, it raises ValueError
\* after exactly max_retries + 1 calls.
C26_CreateKeywords ==
    kw_pc # "idle" =>
        /\ Len(kw_log) <= kw_max_retries + 1
        /\ kw_pc = "returned" =>
              /\ kw_log # <<>>
              /\ "text" \in DOMAIN kw_log[Len(kw_log)]
              /\ kw_log[Len(kw_log)].text \in DOMAIN ObjectValues
              /\ kw_result = <<ObjectValues[kw_log[Len(kw_log)].text]>>
              /\ kw_result[1] # <<>>
        /\ (KeywordsEnded /\ \A i \in 1..Len(kw_log) : NoKeywords(kw_log[i])) =>
              /\ kw_pc = "raised"
              /\ kw_error.type = "ValueError"
              /\ Len(kw_log) = kw_max_retries + 1

\* With max_retries 2, a response without a brace, a JSON string and an
\* empty object were followed by the ValueError for the empty list
C26_Witness ==
    /\ kw_max_retries = 2
    /\ kw_pc = "raised"
    /\ kw_log = <<[text |-> "no keywords"], [text |-> "\"{\""], [text |-> "{}"]>>
    /\ kw_error = Exception("ValueError", "LLM returned an empty keywords list", <<>>)

----------------------------------------------------------------------------
(* Claims about the termination of a scrape                                *)

\* The number of GET requests of one kind for a page and a url
GetCount(ev, p, url) ==
    Cardinality({k \in 1..Len(trace) : trace[k] = Event(ev, p, url)})

\* The urls of the detail pages that were requested
DetailUrls == {trace[k].url : k \in DetailRequests}

\* At most 3 GET requests for every search page, at most num_pages search
\* pages, and at most 2 GET requests for the detail page of every card
ScrapeBounds ==
    /\ \A p \in RequestedPages : GetCount("search", p, "") <= 3
    /\ Cardinality(RequestedPages) <= num_pages
    /\ \A p \in RequestedPages : p <= num_pages
    /\ \A url \in DetailUrls :
          /\ Cardinality({k \in DetailRequests : trace[k].url = url}) <= 2
          /\ \E i \in 1..Len(results) : results[i].url = url

\* C28: every scrape ends, whatever the server answers, and on the way it
\* issues at most 3 GET requests per search page for at most num_pages
\* search pages and at most 2 GET requests for the detail page of each
\* parsed card.
C28_ScrapeTerminates == [](scrape_pc # "idle" => ScrapeBounds) /\ <>ScrapeEnded

\* A deep scrape of a full page and a page whose retries were used up has
\* ended after 3 requests for page 2 and 2 requests for the detail page of
\* a card whose server stayed busy
C28_Witness ==
    /\ ScrapeEnded
    /\ deep_mode = PyBool(TRUE)
    /\ Len(site) = 2 /\ site[2].kind = "exhausted"
    /\ GetCount("search", 2, "") = 3
    /\ \E i \in 1..FullPageSize :
          /\ site[1].cards[i].kind = "busy"
          /\ GetCount("detail", 1, site[1].cards[i].url) = 2
    /\ Len(results) = FullPageSize

----------------------------------------------------------------------------
(* Claims about sequences of profile creations                             *)

\* The snapshot file of the run
SnapshotOfRun == vector_db.files[SnapshotName(run_timestamp)]

\* The latest snapshot of the directory as it is now, by file name
LatestNow == vector_db.files[LatestName(DOMAIN vector_db.files)]

\* The profile holds, in each list field, every element of the previous
\* one, and none of its levels is lower
GrownFrom(profile, previous) ==
    /\ \A key \in ListFields : Range(previous[key]) \subseteq Range(profile[key])
    /\ \A level \in LevelNames :
          profile.experience_level[level] >= previous.experience_level[level]

\* C29: in a sequence of profile creations, a creation that found a readable
\* latest snapshot and whose save succeeded has written a snapshot that
\* holds, in each of the eight list fields, every element of that previously
\* latest snapshot, with none of the four experience levels lower; the
\* latest snapshot of the directory has grown in the same way.
C29_SnapshotsGrow ==
    (profile_pc = "done" /\ saved /\ HasSnapshot /\ LatestAtCall.kind = "profile") =>
        /\ SnapshotName(run_timestamp) \in DOMAIN vector_db.files
        /\ SnapshotOfRun.kind = "profile"
        /\ GrownFrom(SnapshotOfRun.data, LatestAtCall.data)
        /\ LatestNow.kind = "profile"
        /\ GrownFrom(LatestNow.data, LatestAtCall.data)

\* The third creation of a sequence wrote a snapshot on top of the one that
\* the first two creations, run in the same second, had written and
\* overwritten: the languages, the other lists and the levels of all three
\* are in it
C29_Witness ==
    /\ profile_pc = "done" /\ saved /\ creations = 3
    /\ run_timestamp = "20250301_080000"
    /\ DOMAIN db_at_call.files = {OldName, SnapshotName("20250115_143022")}
    /\ LatestAtCall.kind = "profile"
    /\ LatestAtCall.data.core_languages = <<"Go", "Python">>
    /\ LatestAtCall.data.soft_skills = <<"Docker", "Git">>
    /\ LatestAtCall.data.experience_level["Python"] = 7
    /\ skill_profile_new.core_languages = <<"Rust">>
    /\ SnapshotOfRun.data.core_languages = <<"Go", "Python", "Rust">>
    /\ SnapshotOfRun.data.soft_skills = <<"Docker", "Git">>
    /\ SnapshotOfRun.data.experience_level["Python"] = 7
    /\ SnapshotOfRun.data.experience_level["JavaScript"] = 6

----------------------------------------------------------------------------
(* Claims about a run whose search finds no job                            *)

\* The search step has returned an empty list
NoJobFound == 3 \in Range(completed) /\ raw_count = 0

\* C30: when the search step has returned no job, score_jobs returns an
\* empty list and writes no scored-jobs file, the scoring step ends with an
\* exception and never returns, and the analysis and generation steps are
\* never called: the run ends raising the error of step 4.
C30_NoJobsStopsRun ==
    NoJobFound =>
        /\ score_pc = "done" => scored_jobs = <<>>
        /\ scored_files = <<>>
        /\ 4 \notin Range(completed)
        /\ 5 \notin Range(started) /\ 6 \notin Range(started)
        /\ pipe_pc \in {"call", "running", "raised"}
        /\ pipe_pc = "raised" =>
               /\ step_number = 4
               /\ score_pc = "done"
               /\ caught = NoJobsScored
               /\ pipe_error.type = "RuntimeError"
               /\ pipe_error.cause = <<NoJobsScored>>

\* The search of a form with a known board found nothing, score_jobs was
\* called with the empty list and returned, and the run has raised at step
\* 4 after three completed steps
C30_Witness ==
    /\ NoJobFound
    /\ SomeKnownBoard
    /\ score_pc = "done" /\ heap_at_call = <<>> /\ tech_stack # <<>>
    /\ scored_jobs = <<>> /\ scored_files = <<>>
    /\ pipe_pc = "raised" /\ step_number = 4
    /\ started = <<1, 2, 3, 4>> /\ completed = <<1, 2, 3>>
    /\ http_response # <<>>

====
